---- MODULE Spec2Model ----
(***************************************************************************)
(* Verification model of the recommendation engine of the                  *)
(* AI-Course-Recommender backend                                           *)
(* (src/backend/app/services/recommendation_engine.py).                    *)
(*                                                                         *)
(* Conventions                                                             *)
(*  - Optional values: Python None is the empty tuple, a present value x   *)
(*    is the one-element tuple <<x>>.                                      *)
(*  - Text that the code inspects word by word (titles, queries) is a      *)
(*    tuple of word tokens; atomic labels (ids, topics, formats) are       *)
(*    strings.                                                             *)
(*  - Ratings are in tenths (45 is 4.5), similarities in hundredths        *)
(*    (60 is 0.60) where they are inputs; the scorer computes on Python    *)
(*    floats (IEEE 754 binary64), which the model carries exactly, and     *)
(*    rounded scores are in thousandths.                                   *)
(***************************************************************************)
EXTENDS Integers, Sequences, FiniteSets, TLC

VARIABLES
    cache,      \* RecommendationEngine._cache: cache key -> entry
    now,        \* the wall clock read by datetime.now(), in seconds
    owner,      \* history: cache key -> arguments of the request that stored the entry
    hist,       \* history: one observation per request served, oldest first
    fV,         \* fusion run: the vector-candidate list
    fC,         \* fusion run: the content-candidate list
    fOut,       \* fusion run: the list _combine_recommendations(fV, fC) returned
    fFirst,     \* fusion run: a copy of fOut taken when that call returned
    fSelf,      \* fusion run: _combine_recommendations(fV, fV)
    fAgain,     \* fusion run: _combine_recommendations(fOut, fV)
    fPhase,     \* fusion run: "init" | "fused" | "refused"
    sIn,        \* scoring run: the fused candidate list
    sCtx,       \* scoring run: the user_context argument (Optional)
    sDbUp,      \* scoring run: whether execute_query succeeds
    sScored,    \* scoring run: outcome of _score_courses
    sRanked,    \* scoring run: the list after scored_courses.sort(...)
    sPhase,     \* scoring run: "init" | "scored" | "ranked"
    rCache,     \* LLMService._cache: reasoning cache key -> entry
    rLast,      \* the last response of the recommendations route (Optional)
    uOp,        \* unit run: the operation called
    uIn,        \* unit run: its arguments
    uOut,       \* unit run: None before the call, then Some(result)
    prefTable,  \* user_preferences table: user id -> row
    fbTable,    \* user_feedback table: rows in insertion order
    fbSeq,      \* user_feedback table: the largest id given so far (AUTOINCREMENT)
    ixTable,    \* course_interactions table: rows in insertion order
    pending     \* calls that have started and not returned

engineVars == <<cache, now, owner, hist>>
fuseVars   == <<fV, fC, fOut, fFirst, fSelf, fAgain, fPhase>>
scoreVars  == <<sIn, sCtx, sDbUp, sScored, sRanked, sPhase>>
explainVars == <<rCache, rLast>>
unitVars   == <<uOp, uIn, uOut>>
storeVars  == <<prefTable, fbTable, fbSeq, ixTable>>
flightVars == <<pending>>
vars       == <<cache, now, owner, hist, fV, fC, fOut, fFirst, fSelf, fAgain,
                fPhase,
                sIn, sCtx, sDbUp, sScored, sRanked, sPhase,
                rCache, rLast, uOp, uIn, uOut, prefTable, fbTable, fbSeq,
                ixTable, pending>>

-----------------------------------------------------------------------------
(* Generic helpers *)

None == <<>>

Some(x) == <<x>>

IsNone(o) == o = <<>>

Get(o) == o[1]

Min(a, b) == IF a <= b THEN a ELSE b

Max(a, b) == IF a >= b THEN a ELSE b

Abs(a) == IF a >= 0 THEN a ELSE 0 - a

Range(s) == {s[i] : i \in 1..Len(s)}

\* All sequences over S of length at most n.
SeqsUpTo(S, n) == UNION {[1..k -> S] : k \in 0..n}

\* Python slice seq[:n] (a negative n counts from the end).
Slice(seq, n) ==
    IF n >= 0 THEN SubSeq(seq, 1, Min(n, Len(seq)))
    ELSE SubSeq(seq, 1, Max(Len(seq) + n, 0))

\* Mutant of LIMIT: one row too many.
SqlLimitOffByOne(seq, n) ==
    IF n < 0 THEN seq ELSE SubSeq(seq, 1, Min(n + 1, Len(seq)))

\* SQLite "LIMIT n": a negative n means no limit.
SqlLimit(seq, n) ==
    IF n < 0 THEN seq ELSE SubSeq(seq, 1, Min(n, Len(seq)))

\* str.lower() on the labels of the model.
Lower(s) ==
    CASE s = "Python"   -> "python"
      [] s = "Beginner" -> "beginner"
      [] OTHER          -> s

-----------------------------------------------------------------------------
(* Python floats *)

\* A Python float is an IEEE 754 binary64 and every operation on it rounds
\* to nearest, ties to even.  The floats of the scorer are never negative,
\* below 2^14, and zero or at least 2^-17: each is held exactly, as a natural
\* number of units 2^-70 written in base 2^14 with the least significant limb
\* first (5 limbs of fraction, 1 limb of integer part).
LimbBase == 2 ^ 14

Pow2 == <<1, 2, 4, 8, 16, 32, 64, 128, 256, 512, 1024, 2048, 4096, 8192, 16384>>

BitLen(x) ==
    IF x < 128
    THEN IF x < 8
         THEN (IF x < 2 THEN x ELSE IF x < 4 THEN 2 ELSE 3)
         ELSE (IF x < 16 THEN 4 ELSE IF x < 32 THEN 5 ELSE IF x < 64 THEN 6 ELSE 7)
    ELSE IF x < 2048
         THEN (IF x < 256 THEN 8 ELSE IF x < 512 THEN 9 ELSE IF x < 1024 THEN 10 ELSE 11)
         ELSE (IF x < 4096 THEN 12 ELSE IF x < 8192 THEN 13 ELSE 14)

\* Intermediate results are held exactly in 12 limbs of units 2^-140 (10
\* limbs of fraction), so that a product of two floats fits.

\* Index of the most significant non-zero limb, 0 for zero.
TopLimb(X) ==
    IF X[12] # 0 THEN 12
    ELSE IF X[11] # 0 THEN 11
    ELSE IF X[10] # 0 THEN 10
    ELSE IF X[9] # 0 THEN 9
    ELSE IF X[8] # 0 THEN 8
    ELSE IF X[7] # 0 THEN 7
    ELSE IF X[6] # 0 THEN 6
    ELSE IF X[5] # 0 THEN 5
    ELSE IF X[4] # 0 THEN 4
    ELSE IF X[3] # 0 THEN 3
    ELSE IF X[2] # 0 THEN 2
    ELSE IF X[1] # 0 THEN 1
    ELSE 0

\* Column sums to limbs: the carries propagated from the least significant
\* limb up.
Carry(X) ==
    LET c1 == X[1]
        c2 == X[2] + c1 \div LimbBase
        c3 == X[3] + c2 \div LimbBase
        c4 == X[4] + c3 \div LimbBase
        c5 == X[5] + c4 \div LimbBase
        c6 == X[6] + c5 \div LimbBase
        c7 == X[7] + c6 \div LimbBase
        c8 == X[8] + c7 \div LimbBase
        c9 == X[9] + c8 \div LimbBase
        c10 == X[10] + c9 \div LimbBase
        c11 == X[11] + c10 \div LimbBase
        c12 == X[12] + c11 \div LimbBase
    IN  <<c1 % LimbBase, c2 % LimbBase, c3 % LimbBase, c4 % LimbBase,
          c5 % LimbBase, c6 % LimbBase, c7 % LimbBase, c8 % LimbBase,
          c9 % LimbBase, c10 % LimbBase, c11 % LimbBase, c12 % LimbBase>>

ZeroLimbs == <<0, 0, 0, 0, 0, 0, 0, 0, 0, 0, 0, 0>>

\* Number of significant bits of X, whose top limb is limb h.
BitsTo(X, h) == IF h = 0 THEN 0 ELSE 14 * (h - 1) + BitLen(X[h])

\* X, of L significant bits, rounded to 53 of them, ties to even; sticky
\* tells that the exact value has non-zero bits below the last limb of X.
RoundBits(X, sticky, L) ==
    IF L <= 53 THEN X
        ELSE
            LET s == L - 53
                gl == (s - 1) \div 14 + 1
                gb == (s - 1) % 14
                sl == s \div 14 + 1
                sb == s % 14
                guard == (X[gl] \div Pow2[gb + 1]) % 2
                low == \/ sticky
                       \/ X[gl] % Pow2[gb + 1] # 0
                       \/ \E j \in 1..(gl - 1) : X[j] # 0
                odd == (X[sl] \div Pow2[sb + 1]) % 2 = 1
                up == guard = 1 /\ (low \/ odd)
                kept == X[sl] - (X[sl] % Pow2[sb + 1])
                        + (IF up THEN Pow2[sb + 1] ELSE 0)
                T == SubSeq(ZeroLimbs, 1, sl - 1) \o <<kept>> \o SubSeq(X, sl + 1, 12)
            IN  IF up THEN Carry(T) ELSE T

Round53(X, sticky) == RoundBits(X, sticky, BitsTo(X, TopLimb(X)))

\* The float held in limbs 6 to 11 of an intermediate result.
FloatIn(X) == SubSeq(X, 6, 11)

FloatOfInt(n) == <<0, 0, 0, 0, 0, n>>

FloatZero == FloatOfInt(0)

\* The operands of an operation are floats (and are evaluated before it).
IsFloat(x) == Len(x) = 6

\* x + y: the exact sum, rounded.
FloatAdd(x, y) ==
    CASE IsFloat(x) /\ IsFloat(y) ->
        FloatIn(Round53(Carry(<<0, 0, 0, 0, 0, x[1] + y[1], x[2] + y[2],
                                x[3] + y[3], x[4] + y[4], x[5] + y[5],
                                x[6] + y[6], 0>>), FALSE))

\* The column sums of the long multiplication of x by y.
Columns(x, y) ==
    <<x[1] * y[1],
      x[1] * y[2] + x[2] * y[1],
      x[1] * y[3] + x[2] * y[2] + x[3] * y[1],
      x[1] * y[4] + x[2] * y[3] + x[3] * y[2] + x[4] * y[1],
      x[1] * y[5] + x[2] * y[4] + x[3] * y[3] + x[4] * y[2] + x[5] * y[1],
      x[1] * y[6] + x[2] * y[5] + x[3] * y[4] + x[4] * y[3] + x[5] * y[2] + x[6] * y[1],
      x[2] * y[6] + x[3] * y[5] + x[4] * y[4] + x[5] * y[3] + x[6] * y[2],
      x[3] * y[6] + x[4] * y[5] + x[5] * y[4] + x[6] * y[3],
      x[4] * y[6] + x[5] * y[5] + x[6] * y[4],
      x[5] * y[6] + x[6] * y[5],
      x[6] * y[6],
      0>>

\* x * y: the exact product, rounded.
FloatMul(x, y) ==
    CASE IsFloat(x) /\ IsFloat(y) -> FloatIn(Round53(Carry(Columns(x, y)), FALSE))

\* Long division of x by the integer n, from the top limb down, continued
\* over five more limbs of fraction.
DivLimbs(x, n) ==
    LET a6 == x[6]
        a5 == (a6 % n) * LimbBase + x[5]
        a4 == (a5 % n) * LimbBase + x[4]
        a3 == (a4 % n) * LimbBase + x[3]
        a2 == (a3 % n) * LimbBase + x[2]
        a1 == (a2 % n) * LimbBase + x[1]
        b5 == (a1 % n) * LimbBase
        b4 == (b5 % n) * LimbBase
        b3 == (b4 % n) * LimbBase
        b2 == (b3 % n) * LimbBase
        b1 == (b2 % n) * LimbBase
        \* the limbs of the quotient, most significant first
        q == <<a6 \div n, a5 \div n, a4 \div n, a3 \div n, a2 \div n, a1 \div n,
               b5 \div n, b4 \div n, b3 \div n, b2 \div n, b1 \div n>>
    IN  [quot |-> <<q[11], q[10], q[9], q[8], q[7], q[6], q[5], q[4], q[3], q[2],
                    q[1], 0>>,
         rem |-> b1 % n]

RoundQuotient(d) == FloatIn(Round53(d.quot, d.rem # 0))

\* x / n for an integer n: the quotient, rounded.
FloatDivInt(x, n) == CASE IsFloat(x) -> RoundQuotient(DivLimbs(x, n))

\* The float nearest to a / b: a float literal, or int / int.
FloatOf(a, b) == FloatDivInt(FloatOfInt(a), b)

\* x < y
FloatLess(x, y) ==
    /\ IsFloat(x)
    /\ IsFloat(y)
    /\ \E i \in 1..6 : x[i] < y[i] /\ \A j \in (i + 1)..6 : x[j] = y[j]

FloatLeq(x, y) == x = y \/ FloatLess(x, y)

\* x - y for y <= x: the exact difference, rounded.
FloatSub(x, y) ==
    CASE IsFloat(x) /\ IsFloat(y) /\ FloatLeq(y, x) ->
        FloatIn(Round53(Carry(<<0, 0, 0, 0, 0, x[1] - y[1], x[2] - y[2],
                                x[3] - y[3], x[4] - y[4], x[5] - y[5],
                                x[6] - y[6], 0>>), FALSE))

\* min(x, y) of Python: y when y < x, else x.
FloatMin(x, y) == IF FloatLess(y, x) THEN y ELSE x

\* The exact product of the float x and the integer k.
TimesInt(x, k) ==
    Carry(<<x[1] * k, x[2] * k, x[3] * k, x[4] * k, x[5] * k, x[6] * k,
            0, 0, 0, 0, 0, 0>>)

\* P, in units of 2^-70, rounded to an integer, ties to even.
RoundHalfEven(P) ==
    LET int == P[6] + LimbBase * P[7]
        half == LimbBase \div 2
        lowNonZero == \E j \in 1..4 : P[j] # 0
        up == \/ P[5] > half
              \/ P[5] = half /\ (lowNonZero \/ int % 2 = 1)
    IN  IF up THEN int + 1 ELSE int

\* round(x * k) to an integer, ties to even, on the exact value of x.
RoundTimes(x, k) == RoundHalfEven(TimesInt(x, k))

\* The integer n with |x * k - n| < 2^-28, or -1 when x * k is not that close
\* to an integer: the value of x in units of 1/k, up to float rounding.
NearInteger(P) ==
    LET int == P[6] + LimbBase * P[7]
    IN  IF P[5] = 0 /\ P[4] = 0 THEN int
        ELSE IF P[5] = LimbBase - 1 /\ P[4] = LimbBase - 1 THEN int + 1
        ELSE 0 - 1

Approx(x, k) == NearInteger(TimesInt(x, k))

\* Float literals of the scorer.
Float_0_02 == FloatOf(2, 100)

Float_0_05 == FloatOf(5, 100)

Float_0_1 == FloatOf(1, 10)

Float_0_2 == FloatOf(2, 10)

Float_0_3 == FloatOf(3, 10)

Float_0_4 == FloatOf(4, 10)

Float_0_5 == FloatOf(5, 10)

Float_0_7 == FloatOf(7, 10)

Float_0_8 == FloatOf(8, 10)

Float_1_0 == FloatOfInt(1)

-----------------------------------------------------------------------------
(* Bounds *)

MaxVecLen == 2

MaxContentLen == 2

MaxScoreLen == 3

MaxRequests == 2

MaxTime == 300

-----------------------------------------------------------------------------
(* The Catalog Store: rows of the courses table in rowid order. *)

Catalog ==
    << [id |-> "c1", title |-> <<"python", "basics">>,
        description |-> <<"learn", "python">>,
        topics |-> <<"Python", "fundamentals">>, difficulty |-> "Beginner",
        duration |-> Some("4 weeks"), format |-> "interactive", rating |-> Some(45)],
       [id |-> "c2", title |-> <<"data", "science">>,
        description |-> <<"statistics", "with", "python">>,
        topics |-> <<"data science", "statistics">>, difficulty |-> "intermediate",
        duration |-> Some("8 weeks"), format |-> "video", rating |-> Some(47)],
       [id |-> "c3", title |-> <<"web", "design">>,
        description |-> <<"design", "pages">>,
        topics |-> <<"web">>, difficulty |-> "advanced",
        duration |-> Some("6 weeks"), format |-> "hands-on", rating |-> Some(45)] >>

CourseIds == {Catalog[i].id : i \in 1..Len(Catalog)}

\* Row of the courses table with the given id, None when there is none.
CourseById(cid) ==
    IF \E i \in 1..Len(Catalog) : Catalog[i].id = cid
    THEN Some(Catalog[CHOOSE i \in 1..Len(Catalog) : Catalog[i].id = cid])
    ELSE None

\* A candidate dict holds None under a key whose column is NULL or whose
\* property the vector object does not carry.  rating and duration are
\* Optional in the record.  A key of the other six that holds None is
\* listed in the field absent, and the record carries the falsy value of
\* its type in its place (the scorer tests these keys with "not", lines
\* 301, 319, 339 and 361, so None and the falsy value score alike).
\* Candidate dict built from a courses row by content filtering.
ContentCandidate(row) ==
    [id |-> row.id, title |-> row.title, description |-> row.description,
     topics |-> row.topics, difficulty |-> row.difficulty,
     duration |-> row.duration, format |-> row.format, rating |-> row.rating,
     vector_similarity |-> 0, source |-> None, absent |-> {}]

\* Candidate dict built from a vector-search result whose certainty is sim.
\* The Vector Index is a separate store: its objects are inserted under a
\* fresh uuid, so one course id can occur more than once, and a property
\* missing from an object reads as None (here: duration).
VectorCandidate(row, sim, complete) ==
    [id |-> row.id, title |-> row.title, description |-> row.description,
     topics |-> row.topics, difficulty |-> row.difficulty,
     duration |-> IF complete THEN row.duration ELSE None,
     format |-> row.format, rating |-> row.rating,
     vector_similarity |-> sim, source |-> None, absent |-> {}]

\* The keys of a candidate dict that CourseResponse requires (models.py
\* 28-37).
RequiredKeys ==
    {"id", "title", "description", "topics", "difficulty", "duration", "format",
     "rating"}

\* The candidate dict of an object without the property key
\* (weaviate_service.py 320-327): props.get(key) gives None, and
\* props.get('topics', []) gives the empty list (line 323).
Lacking(course, key) ==
    CASE key = "rating" -> [course EXCEPT !.rating = None]
      [] key = "duration" -> [course EXCEPT !.duration = None]
      [] key = "topics" -> [course EXCEPT !.topics = <<>>]
      [] key \in {"id", "difficulty", "format"} ->
            [course EXCEPT ![key] = "", !.absent = @ \cup {key}]
      [] key \in {"title", "description"} ->
            [course EXCEPT ![key] = <<>>, !.absent = @ \cup {key}]

\* The candidate dict of an object whose topics property is null: the
\* default of props.get('topics', []) applies to a missing key only, so
\* the dict holds None (line 323).
NullTopics(course) == [course EXCEPT !.topics = <<>>, !.absent = @ \cup {"topics"}]

\* The required keys under which the candidate dict holds None.
NoneKeys(course) ==
    course.absent
    \cup (IF IsNone(course.rating) THEN {"rating"} ELSE {})
    \cup (IF IsNone(course.duration) THEN {"duration"} ELSE {})

-----------------------------------------------------------------------------
(* Candidate Fusion *)

HasId(combined, cid) == \E i \in 1..Len(combined) : combined[i].id = cid

\* Mutant of the dict store: the record is appended even when the identifier
\* is already present.
DictPutAppend(combined, course, tag) ==
    Append(combined, [course EXCEPT !.source = Some(tag)])

\* combined[course_id] = course; combined[course_id]['source'] = tag.
\* A Python dict keeps a key at the position of its first insertion.
DictPut(combined, course, tag) ==
    LET c == [course EXCEPT !.source = Some(tag)] IN
    IF HasId(combined, course.id)
    THEN [i \in 1..Len(combined) |->
            IF combined[i].id = course.id THEN c ELSE combined[i]]
    ELSE Append(combined, c)

RECURSIVE AddVector(_, _)
AddVector(combined, vector_courses) ==
    IF vector_courses = <<>> THEN combined
    ELSE AddVector(DictPut(combined, Head(vector_courses), "vector"),
                   Tail(vector_courses))

\* Mutant of the guard "if course_id not in combined": the content record
\* overwrites the record already stored under the identifier.
AddContentStepOverwrite(combined, course) == DictPut(combined, course, "content")

AddContentStep(combined, course) ==
    IF ~HasId(combined, course.id)
    THEN DictPut(combined, course, "content")
    ELSE combined

RECURSIVE AddContent(_, _)
AddContent(combined, content_courses) ==
    IF content_courses = <<>> THEN combined
    ELSE AddContent(AddContentStep(combined, Head(content_courses)),
                    Tail(content_courses))

\* The list returned: list(combined.values()).
combine_recommendations(vector_courses, content_courses) ==
    AddContent(AddVector(<<>>, vector_courses), content_courses)

\* The dicts of the arguments are stored in the result and the tag is
\* written into them: after the call every record of vector_courses is
\* tagged 'vector' ...
vector_courses_after(vector_courses) ==
    [i \in 1..Len(vector_courses) |->
        [vector_courses[i] EXCEPT !.source = Some("vector")]]

\* ... and a record of content_courses is tagged 'content' when its
\* identifier was not in combined at its turn.
content_courses_after(vector_courses, content_courses) ==
    [i \in 1..Len(content_courses) |->
        IF ~HasId(AddContent(AddVector(<<>>, vector_courses),
                             SubSeq(content_courses, 1, i - 1)),
                  content_courses[i].id)
        THEN [content_courses[i] EXCEPT !.source = Some("content")]
        ELSE content_courses[i]]

-----------------------------------------------------------------------------
(* Fusion runs: inputs drawn in the initial state, then fused. *)

SimValues == {60, 80}

VectorCandidates ==
    {VectorCandidate(Catalog[i], s, TRUE) : i \in 1..Len(Catalog), s \in SimValues}

ContentCandidates == {ContentCandidate(Catalog[i]) : i \in 1..Len(Catalog)}

DistinctIds(list) ==
    \A i, j \in 1..Len(list) : list[i].id = list[j].id => i = j

VectorLists == SeqsUpTo(VectorCandidates, MaxVecLen)

\* The content list is a SELECT over a table keyed by id: no duplicates.
ContentLists == {l \in SeqsUpTo(ContentCandidates, MaxContentLen) : DistinctIds(l)}

EngineIdle ==
    /\ cache = <<>>
    /\ now = 0
    /\ owner = <<>>
    /\ hist = <<>>

FuseIdle ==
    /\ fV = <<>>
    /\ fC = <<>>
    /\ fOut = <<>>
    /\ fFirst = <<>>
    /\ fSelf = <<>>
    /\ fAgain = <<>>
    /\ fPhase = "init"

ScoreIdle ==
    /\ sIn = <<>>
    /\ sCtx = None
    /\ sDbUp = TRUE
    /\ sScored = [raised |-> FALSE, path |-> "none", value |-> <<>>]
    /\ sRanked = <<>>
    /\ sPhase = "init"

ExplainIdle ==
    /\ rCache = <<>>
    /\ rLast = <<>>

UnitIdle ==
    /\ uOp = "none"
    /\ uIn = <<>>
    /\ uOut = <<>>

StoreIdle ==
    /\ prefTable = <<>>
    /\ fbTable = <<>>
    /\ fbSeq = 0
    /\ ixTable = <<>>

FlightIdle == pending = {}

InitFuse ==
    /\ EngineIdle
    /\ ScoreIdle
    /\ ExplainIdle
    /\ UnitIdle
    /\ StoreIdle
    /\ FlightIdle
    /\ fV \in VectorLists
    /\ fC \in ContentLists
    /\ fOut = <<>>
    /\ fFirst = <<>>
    /\ fSelf = <<>>
    /\ fAgain = <<>>
    /\ fPhase = "init"

Fuse ==
    /\ fPhase = "init"
    /\ fOut' = combine_recommendations(fV, fC)
    /\ fFirst' = fOut'
    /\ fV' = vector_courses_after(fV)
    /\ fC' = content_courses_after(fV, fC)
    /\ fSelf' = combine_recommendations(fV', fV')
    /\ fPhase' = "fused"
    /\ UNCHANGED fAgain
    /\ UNCHANGED engineVars
    /\ UNCHANGED scoreVars
    /\ UNCHANGED explainVars
    /\ UNCHANGED unitVars
    /\ UNCHANGED storeVars
    /\ UNCHANGED flightVars

\* The second call is made on the list the first call returned: its records
\* are the dicts of fV and fC that the first call stored, so the tags it
\* writes show in fOut and in fC as well.
FuseAgain ==
    /\ fPhase = "fused"
    /\ fAgain' = combine_recommendations(fOut, fV)
    /\ fOut' = vector_courses_after(fOut)
    /\ fC' = [i \in 1..Len(fC) |->
                IF fC[i].source = Some("content")
                THEN [fC[i] EXCEPT !.source = Some("vector")]
                ELSE fC[i]]
    /\ fPhase' = "refused"
    /\ UNCHANGED <<fV, fFirst, fSelf>>
    /\ UNCHANGED engineVars
    /\ UNCHANGED scoreVars
    /\ UNCHANGED explainVars
    /\ UNCHANGED unitVars
    /\ UNCHANGED storeVars
    /\ UNCHANGED flightVars

NextFuse == Fuse \/ FuseAgain

SpecFuse == InitFuse /\ [][NextFuse]_vars

-----------------------------------------------------------------------------
(* Candidate Fusion: properties *)

IdsOf(list) == {list[i].id : i \in 1..Len(list)}

WithSource(c, tag) == [c EXCEPT !.source = Some(tag)]

Untagged(list) == [i \in 1..Len(list) |-> [list[i] EXCEPT !.source = None]]

\* C8: the fused list holds each identifier of V or C exactly once; an
\* identifier of V carries a record of V (similarity included) tagged
\* 'vector', also when C holds it too; an identifier only in C carries its
\* record of C tagged 'content'.
C8_FusionContract ==
    fPhase # "init" =>
        /\ IdsOf(fFirst) = IdsOf(fV) \cup IdsOf(fC)
        /\ DistinctIds(fFirst)
        /\ \A k \in 1..Len(fFirst) :
            IF fFirst[k].id \in IdsOf(fV)
            THEN \E i \in 1..Len(fV) :
                    /\ fV[i].id = fFirst[k].id
                    /\ fFirst[k] = WithSource(fV[i], "vector")
                    /\ fFirst[k].vector_similarity = fV[i].vector_similarity
            ELSE \E j \in 1..Len(fC) :
                    /\ fC[j].id = fFirst[k].id
                    /\ fFirst[k] = WithSource(fC[j], "content")

\* C8 witness: a fusion in which one identifier came from both sources and
\* another one from the content source only.
C8_Witness ==
    /\ fPhase = "fused"
    /\ \E i \in 1..Len(fV) : fV[i].id \in IdsOf(fC)
    /\ \E j \in 1..Len(fC) : fC[j].id \notin IdsOf(fV)
    /\ \E k \in 1..Len(fFirst) : fFirst[k].source = Some("content")

\* Fusing a list with itself: every identifier once, each carrying a record
\* of the list, and for a list without duplicates the same records in the
\* same order.
SelfFusionSame ==
    /\ DistinctIds(fSelf)
    /\ IdsOf(fSelf) = IdsOf(fV)
    /\ \A k \in 1..Len(fSelf) :
        \E i \in 1..Len(fV) : fSelf[k] = WithSource(fV[i], "vector")
    /\ DistinctIds(fV) => Untagged(fSelf) = Untagged(fV)

\* C9 as stated: fusing (A fused with B) with A again gives the same
\* result as fusing A with B once: same records, order and provenance tags.
\* The result of fusing once is the list as that call returned it.
C9_FusionIdempotent ==
    fPhase = "refused" => (SelfFusionSame /\ fAgain = fFirst)

\* C9 amended: the second fusion keeps the identifiers, their order and all
\* fields other than provenance, but tags every record 'vector'; it equals
\* the first fusion exactly when B held no identifier absent from A.  The
\* records are shared, so the list the first call returned shows the new
\* tags too.
C9_FusionRetagsVector ==
    fPhase = "refused" =>
        /\ SelfFusionSame
        /\ Untagged(fAgain) = Untagged(fFirst)
        /\ \A k \in 1..Len(fAgain) : fAgain[k].source = Some("vector")
        /\ (fAgain = fFirst) <=> (IdsOf(fC) \subseteq IdsOf(fV))
        /\ fOut = fAgain

\* C9 witness: a second fusion that changed the tag of a content-only record,
\* on a vector list that repeats an identifier.
C9_Witness ==
    /\ fPhase = "refused"
    /\ ~DistinctIds(fV)
    /\ \E k \in 1..Len(fFirst) :
        /\ fFirst[k].source = Some("content")
        /\ fAgain[k].source = Some("vector")
        /\ fOut[k].source = Some("vector")
        /\ fAgain[k].id = fFirst[k].id

-----------------------------------------------------------------------------
(* Multi-Signal Scorer *)

\* Scores are floats.  Statements about their values are made in units of
\* 1/SubScale (sub-scores) and 1/ScoreScale (composite scores), in which
\* every weight of the scorer is an integer.
SubScale == 60 * 30

ScoreScale == 20 * SubScale

\* The value of a sub-score in 1/SubScale and of a score in 1/ScoreScale, up
\* to float rounding.
InSubUnits(x) == Approx(x, SubScale)

InScoreUnits(x) == Approx(x, ScoreScale)

\* course['rating'] (REAL column, tenths here) and
\* course.get('vector_similarity', 0.0) (hundredths here) as floats.
RatingOf(course) == FloatOf(Get(course.rating), 10)

SimilarityOf(course) == FloatOf(course.vector_similarity, 100)

LowerAll(list) == {Lower(list[i]) : i \in 1..Len(list)}

\* Number of occurrences of Lower-equal label t in list: Counter(...)[t].
RECURSIVE CountOf(_, _)
CountOf(list, t) ==
    IF list = <<>> THEN 0
    ELSE (IF Lower(Head(list)) = t THEN 1 ELSE 0) + CountOf(Tail(list), t)

\* First loop: 1.0 is added for every topic of the course found among the
\* preferred topics (a sum of ones is exact).
PreferredSum(course_topics, preferred_topics) ==
    FloatOfInt(Cardinality({i \in 1..Len(course_topics) :
                    Lower(course_topics[i]) \in LowerAll(preferred_topics)}))

\* Second loop, from topic i on: min(count / 3.0, 0.8) is added for every
\* topic of the course found in the positive history.
RECURSIVE AddFrequencyWeights(_, _, _, _)
AddFrequencyWeights(score, course_topics, positive_topics, i) ==
    IF i > Len(course_topics) THEN score
    ELSE
        LET cnt == CountOf(positive_topics, Lower(course_topics[i]))
            frequency_weight == FloatMin(FloatOf(cnt, 3), Float_0_8)
        IN  AddFrequencyWeights(
                IF cnt > 0 THEN FloatAdd(score, frequency_weight) ELSE score,
                course_topics, positive_topics, i + 1)

\* Mutant of the topic score: the quotient is not capped at 1.0.
calculate_topic_score_uncapped(course_topics, preferred_topics, positive_topics) ==
    IF course_topics = <<>> THEN FloatZero
    ELSE FloatDivInt(AddFrequencyWeights(PreferredSum(course_topics, preferred_topics),
                                         course_topics, positive_topics, 1),
                     Max(Len(course_topics), 1))

\* _calculate_topic_score.
calculate_topic_score(course_topics, preferred_topics, positive_topics) ==
    IF course_topics = <<>> THEN FloatZero
    ELSE FloatMin(FloatDivInt(AddFrequencyWeights(
                                  PreferredSum(course_topics, preferred_topics),
                                  course_topics, positive_topics, 1),
                              Max(Len(course_topics), 1)),
                  Float_1_0)

DifficultyLevels == <<"beginner", "intermediate", "advanced">>

LevelIndex(d) ==
    IF \E i \in 1..Len(DifficultyLevels) : DifficultyLevels[i] = d
    THEN CHOOSE i \in 1..Len(DifficultyLevels) : DifficultyLevels[i] = d
    ELSE 0

\* _calculate_difficulty_score.
calculate_difficulty_score(course_difficulty, preferred_difficulty) ==
    IF IsNone(preferred_difficulty) \/ Get(preferred_difficulty) = ""
       \/ course_difficulty = ""
    THEN Float_0_5
    ELSE IF Lower(course_difficulty) = Lower(Get(preferred_difficulty))
    THEN Float_1_0
    ELSE
        LET course_idx == LevelIndex(Lower(course_difficulty))
            preferred_idx == LevelIndex(Lower(Get(preferred_difficulty)))
        IN  IF course_idx = 0 \/ preferred_idx = 0 THEN Float_0_5
            ELSE IF Abs(course_idx - preferred_idx) = 0 THEN Float_1_0
            ELSE IF Abs(course_idx - preferred_idx) = 1 THEN Float_0_7
            ELSE Float_0_3

\* Python "needle in hay" on the format and style labels of the model: the
\* pairs below are the proper substrings among them.
ProperSubstrings ==
    { <<"visual learner", "visual">>, <<"interactive video", "interactive">>,
      <<"interactive video", "video">> }

Contains(hay, needle) == hay = needle \/ <<hay, needle>> \in ProperSubstrings

format_style_map ==
    << <<"hands-on", {"hands-on", "practical", "project-based", "interactive"}>>,
       <<"video", {"visual", "auditory", "multimedia"}>>,
       <<"interactive", {"hands-on", "visual", "engaging"}>>,
       <<"text", {"reading", "theoretical", "self-paced"}>>,
       <<"live", {"interactive", "collaborative", "social"}>>,
       <<"project-based", {"hands-on", "practical", "applied"}>> >>

\* _calculate_learning_style_score.
calculate_learning_style_score(course_format, preferred_style) ==
    IF IsNone(preferred_style) \/ Get(preferred_style) = "" \/ course_format = ""
    THEN Float_0_5
    ELSE
        LET preferred_lower == Lower(Get(preferred_style))
            course_format_lower == Lower(course_format)
        IN  IF Contains(course_format_lower, preferred_lower) THEN Float_1_0
            ELSE IF \E k \in 1..Len(format_style_map) :
                        /\ Contains(course_format_lower, format_style_map[k][1])
                        /\ \E style \in format_style_map[k][2] :
                                Contains(preferred_lower, style)
            THEN Float_0_8
            ELSE Float_0_4

\* Mutant of the diversity score: every candidate topic counts as new and
\* the ratio is not halved.
calculate_diversity_score_all_new(course_topics, preferred_topics) ==
    IF course_topics = <<>> \/ preferred_topics = <<>>
    THEN Float_0_2
    ELSE FloatOf(Len(course_topics), Len(course_topics))

\* _calculate_diversity_score.
calculate_diversity_score(course_topics, preferred_topics) ==
    IF course_topics = <<>> \/ preferred_topics = <<>>
    THEN Float_0_2
    ELSE
        LET new_topics == {i \in 1..Len(course_topics) :
                              Lower(course_topics[i]) \notin LowerAll(preferred_topics)}
            diversity_ratio == FloatOf(Cardinality(new_topics), Len(course_topics))
        IN  FloatMul(diversity_ratio, Float_0_5)

\* The feedback records of the context whose course is looked up.
RECURSIVE PositiveTopicsOf(_)
PositiveTopicsOf(recent_feedback) ==
    IF recent_feedback = <<>> THEN <<>>
    ELSE
        LET feedback == Head(recent_feedback)
            course == CourseById(feedback.course_id)
            topics == IF feedback.rating >= 4 /\ feedback.course_id # ""
                         /\ ~IsNone(course)
                      THEN Get(course).topics ELSE <<>>
        IN  topics \o PositiveTopicsOf(Tail(recent_feedback))

NeedsLookup(recent_feedback) ==
    \E i \in 1..Len(recent_feedback) :
        recent_feedback[i].rating >= 4 /\ recent_feedback[i].course_id # ""

\* _extract_positive_topic_patterns: raises when a lookup is needed and
\* execute_query fails.
extract_positive_topic_patterns(user_context, dbUp) ==
    IF NeedsLookup(user_context.recent_feedback) /\ ~dbUp
    THEN [raised |-> TRUE, value |-> <<>>]
    ELSE [raised |-> FALSE, value |-> PositiveTopicsOf(user_context.recent_feedback)]

\* Mutant of the source bonus: granted to every candidate.
SourceBonusAlways(course, score) == FloatAdd(score, Float_0_02)

\* if course.get('source') == 'vector': score += 0.02
SourceBonus(course, score) ==
    IF course.source = Some("vector") THEN FloatAdd(score, Float_0_02) ELSE score

\* One iteration of the scoring loop: the terms are added to score in the
\* order of the code, each sum rounded.
CompositeScore(course, preferences, positive_topics) ==
    LET base_score == FloatMul(FloatDivInt(RatingOf(course), 5), Float_0_2)
        vector_score == FloatMul(SimilarityOf(course), Float_0_4)
        topic_score ==
            FloatMul(calculate_topic_score(course.topics, preferences.topics,
                                           positive_topics),
                     Float_0_3)
        difficulty_score ==
            FloatMul(calculate_difficulty_score(course.difficulty,
                                                preferences.difficulty),
                     Float_0_1)
        style_score ==
            FloatMul(calculate_learning_style_score(course.format,
                                                    preferences.learning_style),
                     Float_0_05)
        diversity_score ==
            FloatMul(calculate_diversity_score(course.topics, preferences.topics),
                     Float_0_05)
        s1 == FloatAdd(FloatZero, base_score)
        s2 == FloatAdd(s1, vector_score)
        s3 == FloatAdd(s2, topic_score)
        s4 == FloatAdd(s3, difficulty_score)
        s5 == FloatAdd(s4, style_score)
        s6 == FloatAdd(s5, diversity_score)
    IN  SourceBonus(course, s6)

\* Mutant of the coarse score: the similarity is not halved.
CoarseScoreFullSimilarity(course) ==
    FloatAdd(FloatDivInt(RatingOf(course), 5), SimilarityOf(course))

\* rating / 5.0 + vector_similarity * 0.5
CoarseScore(course) ==
    FloatAdd(FloatDivInt(RatingOf(course), 5),
             FloatMul(SimilarityOf(course), Float_0_5))

\* rating / 5.0
RatingScore(course) == FloatDivInt(RatingOf(course), 5)

AnyRatingMissing(courses) == \E i \in 1..Len(courses) : IsNone(courses[i].rating)

\* _score_courses.  path is "coarse" (no context), "composite" (the loop
\* completed) or "rating" (the except handler ran); raised means that the
\* handler itself raised (a rating that is None divides in both places).
score_courses(courses, user_context, dbUp) ==
    IF AnyRatingMissing(courses)
    THEN [raised |-> TRUE, path |-> "rating", value |-> <<>>]
    ELSE IF IsNone(user_context)
    THEN [raised |-> FALSE, path |-> "coarse",
          value |-> [i \in 1..Len(courses) |->
                        [course |-> courses[i], score |-> CoarseScore(courses[i])]]]
    ELSE
        LET ctx == Get(user_context)
            positive == extract_positive_topic_patterns(ctx, dbUp)
        IN  IF positive.raised
            THEN [raised |-> FALSE, path |-> "rating",
                  value |-> [i \in 1..Len(courses) |->
                        [course |-> courses[i], score |-> RatingScore(courses[i])]]]
            ELSE [raised |-> FALSE, path |-> "composite",
                  value |-> [i \in 1..Len(courses) |->
                        [course |-> courses[i],
                         score |-> CompositeScore(courses[i], ctx.preferences,
                                                  positive.value)]]]

\* Mutant of the stable descending sort: an element is placed before the
\* elements of equal score.
RECURSIVE InsertDescUnstable(_, _)
InsertDescUnstable(sorted, x) ==
    IF sorted = <<>> THEN <<x>>
    ELSE IF FloatLess(x.score, Head(sorted).score)
    THEN <<Head(sorted)>> \o InsertDescUnstable(Tail(sorted), x)
    ELSE <<x>> \o sorted

\* list.sort(key=score, reverse=True) is stable: an element goes after every
\* element whose score is greater or equal.
RECURSIVE InsertDesc(_, _)
InsertDesc(sorted, x) ==
    IF sorted = <<>> THEN <<x>>
    ELSE IF FloatLeq(x.score, Head(sorted).score)
    THEN <<Head(sorted)>> \o InsertDesc(Tail(sorted), x)
    ELSE <<x>> \o sorted

RECURSIVE SortByScoreDesc(_)
SortByScoreDesc(scored) ==
    IF scored = <<>> THEN <<>>
    ELSE InsertDesc(SortByScoreDesc(SubSeq(scored, 1, Len(scored) - 1)),
                    scored[Len(scored)])

-----------------------------------------------------------------------------
(* Scoring runs: a fused list, a context and the state of the database are
   drawn in the initial state, then scored, then sorted. *)

\* user_context values as get_user_context builds them.
ctxTopics ==
    [preferences |-> [topics |-> <<"python", "data science">>,
                      difficulty |-> Some("beginner"), learning_style |-> None],
     recent_feedback |-> <<>>]

ctxHistory ==
    [preferences |-> [topics |-> <<>>, difficulty |-> None,
                      learning_style |-> Some("visual learner")],
     recent_feedback |-> << [course_id |-> "c1", rating |-> 5],
                            [course_id |-> "c2", rating |-> 4],
                            [course_id |-> "c3", rating |-> 2] >>]

ctxMixed ==
    [preferences |-> [topics |-> <<"python">>, difficulty |-> Some("advanced"),
                      learning_style |-> Some("hands-on")],
     recent_feedback |-> << [course_id |-> "c1", rating |-> 4] >>]

Contexts == {ctxTopics, ctxHistory, ctxMixed}

OptionalContexts == {None} \cup {Some(c) : c \in Contexts}

\* A vector object whose rating property is missing.
UnratedVectorCandidate == Lacking(VectorCandidate(Catalog[3], 60, TRUE), "rating")

\* A vector object that carries neither topics nor difficulty nor format:
\* topics is the empty list, difficulty and format are None.
SparseVectorCandidate ==
    Lacking(Lacking(Lacking(VectorCandidate(Catalog[2], 80, TRUE), "topics"),
                    "difficulty"), "format")

ScoreCandidates ==
    {WithSource(c, "vector") :
        c \in VectorCandidates \cup {UnratedVectorCandidate, SparseVectorCandidate}}
    \cup {WithSource(c, "content") : c \in ContentCandidates}

FusedLists == {l \in SeqsUpTo(ScoreCandidates, MaxScoreLen) : DistinctIds(l)}

InitScore ==
    /\ EngineIdle
    /\ FuseIdle
    /\ ExplainIdle
    /\ UnitIdle
    /\ StoreIdle
    /\ FlightIdle
    /\ sIn \in FusedLists
    /\ sCtx \in OptionalContexts
    /\ sDbUp \in BOOLEAN
    /\ sScored = [raised |-> FALSE, path |-> "none", value |-> <<>>]
    /\ sRanked = <<>>
    /\ sPhase = "init"

Score ==
    /\ sPhase = "init"
    /\ sScored' = score_courses(sIn, sCtx, sDbUp)
    /\ sPhase' = "scored"
    /\ UNCHANGED <<sIn, sCtx, sDbUp, sRanked>>
    /\ UNCHANGED engineVars
    /\ UNCHANGED fuseVars
    /\ UNCHANGED explainVars
    /\ UNCHANGED unitVars
    /\ UNCHANGED storeVars
    /\ UNCHANGED flightVars

Sort ==
    /\ sPhase = "scored"
    /\ ~sScored.raised
    /\ sRanked' = SortByScoreDesc(sScored.value)
    /\ sPhase' = "ranked"
    /\ UNCHANGED <<sIn, sCtx, sDbUp, sScored>>
    /\ UNCHANGED engineVars
    /\ UNCHANGED fuseVars
    /\ UNCHANGED explainVars
    /\ UNCHANGED unitVars
    /\ UNCHANGED storeVars
    /\ UNCHANGED flightVars

NextScore == Score \/ Sort

SpecScore == InitScore /\ [][NextScore]_vars

\* Position of the candidate with identifier cid in the fused input list.
InputPos(cid) == CHOOSE i \in 1..Len(sIn) : sIn[i].id = cid

\* C7: the ranked list is in non-increasing score order and candidates of
\* equal score keep the relative order of the fused input list; sorting
\* neither drops nor duplicates a candidate.
C7_RankedStableDescending ==
    sPhase = "ranked" =>
        /\ Len(sRanked) = Len(sIn)
        /\ Range(sRanked) = Range(sScored.value)
        /\ \A i, j \in 1..Len(sRanked) :
            i < j =>
                /\ FloatLeq(sRanked[j].score, sRanked[i].score)
                /\ sRanked[i].score = sRanked[j].score =>
                        InputPos(sRanked[i].course.id) < InputPos(sRanked[j].course.id)

\* C7 witness: a ranked list that the sort reordered and that holds two
\* candidates of equal score.
C7_Witness ==
    /\ sPhase = "ranked"
    /\ sRanked # sScored.value
    /\ \E i, j \in 1..Len(sRanked) :
        /\ i < j
        /\ sRanked[i].score = sRanked[j].score

\* The weighted sum of the specification, in 1/ScoreScale, over the
\* sub-scores of the candidate (each in 1/SubScale).
WeightedSum(course, user_context, positive_topics) ==
    LET prefs == user_context.preferences IN
      (20 * ScoreScale * Get(course.rating)) \div (100 * 50)
    + (40 * ScoreScale * course.vector_similarity) \div (100 * 100)
    + (30 * (ScoreScale \div SubScale)
          * InSubUnits(calculate_topic_score(course.topics, prefs.topics,
                                             positive_topics))) \div 100
    + (10 * (ScoreScale \div SubScale)
          * InSubUnits(calculate_difficulty_score(course.difficulty,
                                                  prefs.difficulty))) \div 100
    + (5 * (ScoreScale \div SubScale)
          * InSubUnits(calculate_learning_style_score(course.format,
                                                      prefs.learning_style))) \div 100
    + (5 * (ScoreScale \div SubScale)
          * InSubUnits(calculate_diversity_score(course.topics, prefs.topics))) \div 100
    + (IF course.source = Some("vector") THEN (2 * ScoreScale) \div 100 ELSE 0)

CoarseSum(course) ==
    (ScoreScale * Get(course.rating)) \div 50
    + (50 * ScoreScale * course.vector_similarity) \div (100 * 100)

\* C10 as stated: with a context every score is the weighted sum, without
\* one it is rating/5 + 0.5 * vector_similarity.
C10_ScoreFormula ==
    (sPhase # "init" /\ ~sScored.raised) =>
        \A k \in 1..Len(sScored.value) :
            LET c == sScored.value[k].course
                score == InScoreUnits(sScored.value[k].score)
            IN  IF IsNone(sCtx) THEN score = CoarseSum(c)
                ELSE score = WeightedSum(c, Get(sCtx),
                                         PositiveTopicsOf(Get(sCtx).recent_feedback))

\* C10 amended: the weighted sum is the score whenever the scoring loop
\* completes; when scoring raises with a context present and every
\* candidate of the batch has a rating, every candidate scores rating/5;
\* when a candidate of the batch has no rating, with or without a context,
\* the scoring aborts and no candidate is scored.
C10_ScoreFormulaUnlessDegraded ==
    sPhase # "init" =>
        /\ sScored.raised <=> AnyRatingMissing(sIn)
        /\ sScored.raised => sScored.value = <<>>
        /\ ~sScored.raised =>
            /\ Len(sScored.value) = Len(sIn)
            /\ \A k \in 1..Len(sScored.value) :
                LET c == sScored.value[k].course
                    score == InScoreUnits(sScored.value[k].score)
                IN  /\ sScored.value[k].course = sIn[k]
                    /\ IF IsNone(sCtx) THEN score = CoarseSum(c)
                       ELSE IF NeedsLookup(Get(sCtx).recent_feedback) /\ ~sDbUp
                       THEN score = (ScoreScale * Get(c.rating)) \div 50
                       ELSE score = WeightedSum(c, Get(sCtx),
                                         PositiveTopicsOf(Get(sCtx).recent_feedback))

\* C10 witness: a batch scored with a context that has a positive history,
\* holding a vector-sourced and a content-sourced candidate.
C10_Witness ==
    /\ sPhase = "scored"
    /\ ~sScored.raised
    /\ sScored.path = "composite"
    /\ ~IsNone(sCtx)
    /\ NeedsLookup(Get(sCtx).recent_feedback)
    /\ \E k \in 1..Len(sIn) : sIn[k].source = Some("vector")
    /\ \E k \in 1..Len(sIn) : sIn[k].source = Some("content")

\* C10, the batch with a candidate that has no rating: scoring aborted,
\* with and without a context, and the rated candidates before it in the
\* batch got no score either.
C10_UnratedAborts ==
    /\ sPhase = "scored"
    /\ sScored.raised
    /\ sScored.value = <<>>
    /\ Len(sIn) = 2
    /\ ~IsNone(sIn[1].rating)
    /\ IsNone(sIn[2].rating)

\* C10, the candidate without topics, difficulty and format: the weighted
\* sum was computed with topic affinity 0 and the neutral fits.
C10_SparseScored ==
    /\ sPhase = "scored"
    /\ sScored.path = "composite"
    /\ \E k \in 1..Len(sIn) :
        /\ sIn[k].absent = {"difficulty", "format"}
        /\ sIn[k].topics = <<>>

\* The try block of _score_courses raises: a rating that is None divides
\* (lines 254 and 266), and with a context the catalog lookup of a
\* positively rated course can fail (line 261).
ScoringRaises(courses, user_context, dbUp) ==
    \/ AnyRatingMissing(courses)
    \/ /\ ~IsNone(user_context)
       /\ NeedsLookup(Get(user_context).recent_feedback)
       /\ ~dbUp

RatingOnlyOrder(ranked) ==
    \A i, j \in 1..Len(ranked) :
        i < j => Get(ranked[i].course.rating) >= Get(ranked[j].course.rating)

\* C11: when scoring raises for a candidate of the batch, the Scorer does
\* not abort: it returns every candidate of the batch with score rating/5,
\* and the ranking that follows is the rating-only ordering of the batch.
C11_DegradesToRatingOnly ==
    (sPhase # "init" /\ ScoringRaises(sIn, sCtx, sDbUp)) =>
        /\ ~sScored.raised
        /\ sScored.path = "rating"
        /\ Len(sScored.value) = Len(sIn)
        /\ \A k \in 1..Len(sIn) :
            /\ sScored.value[k].course = sIn[k]
            /\ InScoreUnits(sScored.value[k].score)
                    = (ScoreScale * Get(sIn[k].rating)) \div 50
        /\ sPhase = "ranked" =>
            /\ Len(sRanked) = Len(sIn)
            /\ RatingOnlyOrder(sRanked)

\* The part of C11 that the code keeps: a batch in which every candidate
\* has a rating degrades to rating/5 for every candidate.
C11_DegradesWhenRated ==
    (sPhase # "init" /\ ScoringRaises(sIn, sCtx, sDbUp) /\ ~AnyRatingMissing(sIn)) =>
        /\ ~sScored.raised
        /\ sScored.path = "rating"
        /\ \A k \in 1..Len(sIn) :
            /\ sScored.value[k].course = sIn[k]
            /\ InScoreUnits(sScored.value[k].score)
                    = (ScoreScale * Get(sIn[k].rating)) \div 50
        /\ sPhase = "ranked" => RatingOnlyOrder(sRanked)

-----------------------------------------------------------------------------
(* The stores read by the engine *)

\* user_preferences rows (user 2 has none).
UserPreferences ==
    { [user_id |-> 1, preferred_topics |-> <<"python", "data science">>,
       difficulty_level |-> Some("beginner"), learning_style |-> None] }

\* user_feedback rows, most recent first.
UserFeedback ==
    << [user_id |-> 1, course_id |-> "c1", rating |-> 5],
       [user_id |-> 2, course_id |-> "c3", rating |-> 2] >>

\* course_interactions rows.
CourseInteractions ==
    { [user_id |-> 2, course_id |-> "c2", interaction_type |-> "completed"],
      [user_id |-> 1, course_id |-> "c2", interaction_type |-> "viewed"] }

RECURSIVE FeedbackOf(_, _)
FeedbackOf(rows, user_id) ==
    IF rows = <<>> THEN <<>>
    ELSE (IF Head(rows).user_id = user_id
          THEN <<[course_id |-> Head(rows).course_id, rating |-> Head(rows).rating]>>
          ELSE <<>>) \o FeedbackOf(Tail(rows), user_id)

\* The context of the except clause of get_user_context
\* (routers/recommendations.py 403-411), restricted to the same keys.
DefaultContext ==
    [preferences |-> [topics |-> <<>>, difficulty |-> None, learning_style |-> None],
     recent_feedback |-> <<>>]

\* get_user_context, restricted to the keys the engine reads.
get_user_context(user_id) ==
    LET rows == {p \in UserPreferences : p.user_id = user_id} IN
    [preferences |->
        IF rows = {}
        THEN [topics |-> <<>>, difficulty |-> None, learning_style |-> None]
        ELSE LET p == CHOOSE r \in rows : TRUE IN
             [topics |-> p.preferred_topics, difficulty |-> p.difficulty_level,
              learning_style |-> p.learning_style],
     recent_feedback |-> SubSeq(FeedbackOf(UserFeedback, user_id), 1,
                                Min(10, Len(FeedbackOf(UserFeedback, user_id))))]

\* Words of a topic label, lower case.
TopicWords(label) ==
    IF label = "data science" THEN <<"data", "science">> ELSE <<Lower(label)>>

LowerText(text) == [i \in 1..Len(text) |-> Lower(text[i])]

\* text occurs in hay as a run of consecutive words.
OccursIn(text, hay) ==
    \E k \in 0..(Len(hay) - Len(text)) :
        \A i \in 1..Len(text) : hay[k + i] = text[i]

\* "(title LIKE ? OR description LIKE ? OR topics LIKE ?)" with %query%:
\* LIKE ignores ASCII case; matching is taken at word granularity.
Like(query_text, row) ==
    LET q == LowerText(query_text) IN
    \/ OccursIn(q, LowerText(row.title))
    \/ OccursIn(q, LowerText(row.description))
    \/ \E i \in 1..Len(row.topics) : OccursIn(q, TopicWords(row.topics[i]))

\* "if query:" : a query that is neither None nor the empty string.
Truthy(query) == ~IsNone(query) /\ Get(query) # <<>>

RECURSIVE SelectRows(_, _, _)
SelectRows(rows, query, exclude_ids) ==
    IF rows = <<>> THEN <<>>
    ELSE (IF /\ Truthy(query) => Like(Get(query), Head(rows))
             /\ Head(rows).id \notin exclude_ids
          THEN <<ContentCandidate(Head(rows))>> ELSE <<>>)
         \o SelectRows(Tail(rows), query, exclude_ids)

\* Mutant of the content source: only completed courses are left out, not
\* dropped ones.
content_based_on_completed_only(feedback_rows, interactions, user_id, query, dbUp) ==
    IF ~dbUp THEN <<>>
    ELSE
        LET completed_ids ==
                {r.course_id : r \in {x \in interactions :
                    /\ x.user_id = user_id
                    /\ x.interaction_type \in {"completed"}}}
            low_rated_ids ==
                {feedback_rows[i].course_id : i \in {j \in 1..Len(feedback_rows) :
                    feedback_rows[j].user_id = user_id /\ feedback_rows[j].rating <= 2}}
        IN  SelectRows(Catalog, query, completed_ids \cup low_rated_ids)

\* _get_content_based_recommendations: an error of execute_query is caught
\* and gives the empty list.
content_based_on(feedback_rows, interactions, user_id, query, dbUp) ==
    IF ~dbUp THEN <<>>
    ELSE
        LET completed_ids ==
                {r.course_id : r \in {x \in interactions :
                    /\ x.user_id = user_id
                    /\ x.interaction_type \in {"completed", "dropped"}}}
            low_rated_ids ==
                {feedback_rows[i].course_id : i \in {j \in 1..Len(feedback_rows) :
                    feedback_rows[j].user_id = user_id /\ feedback_rows[j].rating <= 2}}
        IN  SelectRows(Catalog, query, completed_ids \cup low_rated_ids)

\* The content source on the stores read by the engine.
get_content_based_recommendations(user_id, query, dbUp) ==
    content_based_on(UserFeedback, CourseInteractions, user_id, query, dbUp)

\* Rows in descending rating order; rows of equal rating stay in rowid
\* order, as SQLite's sorter leaves them.
RECURSIVE InsertByRating(_, _)
InsertByRating(sorted, row) ==
    IF sorted = <<>> THEN <<row>>
    ELSE IF Get(Head(sorted).rating) >= Get(row.rating)
    THEN <<Head(sorted)>> \o InsertByRating(Tail(sorted), row)
    ELSE <<row>> \o sorted

RECURSIVE OrderByRatingDesc(_)
OrderByRatingDesc(rows) ==
    IF rows = <<>> THEN <<>>
    ELSE InsertByRating(OrderByRatingDesc(SubSeq(rows, 1, Len(rows) - 1)),
                        rows[Len(rows)])

\* CourseResponse(...) with similarity_score in thousandths.
CourseResponse(course, similarity) ==
    [id |-> course.id, title |-> course.title, description |-> course.description,
     topics |-> course.topics, difficulty |-> course.difficulty,
     duration |-> Get(course.duration), format |-> course.format,
     rating |-> Get(course.rating), similarity_score |-> similarity]

\* Mutant of the fallback query: ORDER BY rating DESC is dropped.
TopRatedRowsUnordered(max_results) == SqlLimit(Catalog, max_results)

\* "SELECT ... FROM courses ORDER BY rating DESC LIMIT ?".
TopRatedRows(max_results) == SqlLimit(OrderByRatingDesc(Catalog), max_results)

\* max_results is Optional[int] (models.py 80): the body
\* {"max_results": null} is valid and POST hands None to the engine
\* (recommendations.py 42).  None is carried as NoneLimit, which stands for
\* no number: every definition tests for it before it reads max_results as
\* an integer, and no call passes the integer itself.
NoneLimit == 0 - 1

\* Field(10, ge=1, le=20) on Optional[int]: an integer outside 1..20 is
\* rejected, None is accepted.
ValidMaxResults(max_results) == max_results = NoneLimit \/ max_results \in 1..20

\* _get_fallback_recommendations: similarity_score = rating / 5.0; an error
\* inside gives the empty list.  None bound to "LIMIT ?" is such an error
\* (SQLite: datatype mismatch).
get_fallback_recommendations(max_results, dbUp) ==
    IF ~dbUp \/ max_results = NoneLimit THEN <<>>
    ELSE LET rows == TopRatedRows(max_results) IN
         [i \in 1..Len(rows) |-> CourseResponse(rows[i], 20 * Get(rows[i].rating))]

\* round(score, 3) in thousandths: Python rounds the exact value of the
\* float, which is a tie only when that value is itself a tie.
Round3(score) == RoundTimes(score, 1000)

\* Lines 58-61: one CourseResponse per scored candidate, its
\* similarity_score the rounded score.
RECURSIVE ResponsesOf(_)
ResponsesOf(top) ==
    IF top = <<>> THEN <<>>
    ELSE <<CourseResponse(Head(top).course, Round3(Head(top).score))>>
         \o ResponsesOf(Tail(top))

-----------------------------------------------------------------------------
(* The Result Cache and get_personalized_recommendations *)

\* self._cache_ttl, in seconds.
CacheTTL == 300

UserIds == {1, 2}

\* Query arguments: absent, the text "None", the text "python".
Queries == {None, Some(<<"None">>), Some(<<"python">>)}

MaxResultsValues == {0, 2}

\* str(query): the text itself, and "None" for an absent query.
PyStr(query) == IF IsNone(query) THEN <<"None">> ELSE Get(query)

\* hash(...) of a str: an integer fixed for the life of the process; equal
\* texts hash alike, and the few texts of the model do not collide.
HashTable == << <<>>, <<"None">>, <<"python">> >>

PyHash(text) == CHOOSE h \in 1..Len(HashTable) : HashTable[h] = text

\* f"rec_{user_id}_{hash(str(query))}_{max_results}": the three integers are
\* separated by "_", so the string determines the triple.
cache_key(user_id, query, max_results) ==
    <<"rec", user_id, PyHash(PyStr(query)), max_results>>

\* Mutant of the read guard: force_refresh is ignored.
ReadsCacheIgnoringForce(c, key, force_refresh) == key \in DOMAIN c

\* "not force_refresh and cache_key in self._cache".
ReadsCache(c, key, force_refresh) == ~force_refresh /\ key \in DOMAIN c

\* Mutant of the freshness test: no entry is ever served, so every call
\* computes with the user_context it was given.
IsFreshNever(entry, t) == FALSE

\* Mutant of the expiry test: the comparison is inverted.
IsFreshInverted(entry, t) == t - entry.timestamp > CacheTTL

\* Mutant of the expiry test: an entry aged exactly the TTL is still served.
IsFreshInclusive(entry, t) == t - entry.timestamp <= CacheTTL

\* "datetime.now() - cache_entry['timestamp'] < timedelta(seconds=ttl)".
IsFresh(entry, t) == t - entry.timestamp < CacheTTL

\* Mutant of the delete: the entry is left in the dict.
WithoutDeleting(c, key) == c

\* del self._cache[cache_key]
Without(c, key) == [k \in DOMAIN c \ {key} |-> c[k]]

With(c, key, value) == [k \in DOMAIN c \cup {key} |-> IF k = key THEN value ELSE c[k]]

\* What the Vector Index can return to a request: nothing (also when the
\* search fails), two complete objects, an object without its duration
\* property, an object without its rating property.
VectorOutcomes ==
    { <<>>,
      << VectorCandidate(Catalog[2], 80, TRUE), VectorCandidate(Catalog[1], 60, TRUE) >>,
      << VectorCandidate(Catalog[3], 80, FALSE) >>,
      << UnratedVectorCandidate >> }

\* Lines 57-61: the responses of the first max_results candidates.
\* CourseResponse(**course) rejects a candidate that holds None under one
\* of the required keys (models.py 28-37: none of the eight is Optional).
\* raised tells that an earlier stage raised.  content and fused keep the
\* values of content_courses and combined_courses.
BuildResponses(content_courses, combined_courses, raised, scoring, top) ==
    IF raised \/ \E i \in 1..Len(top) : NoneKeys(top[i].course) # {}
    THEN [raised |-> TRUE, scoring |-> scoring, value |-> <<>>,
          content |-> content_courses, fused |-> combined_courses]
    ELSE [raised |-> FALSE, scoring |-> scoring,
          value |-> ResponsesOf(top),
          content |-> content_courses, fused |-> combined_courses]

\* Lines 55-57: the sort of the scored list and the slice [:max_results],
\* which is the whole list for [:None].
RankScored(content_courses, combined_courses, raised, scored, max_results) ==
    BuildResponses(content_courses, combined_courses, raised \/ scored.raised,
                   scored.path,
                   IF max_results = NoneLimit THEN SortByScoreDesc(scored.value)
                   ELSE Slice(SortByScoreDesc(scored.value), max_results))

\* Line 54: the scoring of the fused list.
ScoreFused(content_courses, combined_courses, raised, user_context, max_results, dbUp) ==
    RankScored(content_courses, combined_courses, raised,
               score_courses(combined_courses, user_context, dbUp), max_results)

\* Mutant of the compute path: an empty candidate list of either source is
\* treated as an error.
ComputePathFailsOnEmptySource(user_id, query, user_context, max_results, vector_courses, dbUp) ==
    ScoreFused(get_content_based_recommendations(user_id, query, dbUp),
               combine_recommendations(vector_courses,
                   get_content_based_recommendations(user_id, query, dbUp)),
               vector_courses = <<>>
                   \/ get_content_based_recommendations(user_id, query, dbUp) = <<>>,
               user_context, max_results, dbUp)

\* The compute path from the content candidates on, lines 53-61: fusion,
\* scoring, sorting and the construction of the responses.
ComputeWith(content_courses, user_context, max_results, vector_courses, dbUp) ==
    ScoreFused(content_courses,
               combine_recommendations(vector_courses, content_courses),
               FALSE, user_context, max_results, dbUp)

\* The compute path, lines 50-61, with the content candidates retrieved
\* from the stores read by the engine.
ComputePath(user_id, query, user_context, max_results, vector_courses, dbUp) ==
    ComputeWith(get_content_based_recommendations(user_id, query, dbUp),
                user_context, max_results, vector_courses, dbUp)

\* One call of get_personalized_recommendations, start to return: what it
\* does to the cache, and the record of the call, whose result field is the
\* list returned.  None of the coroutines it awaits suspends, so the call is
\* one step of the event loop.
EngineCall(user_id, query, user_context, max_results, force_refresh, vector_courses, dbUp, computed) ==
    LET key == cache_key(user_id, query, max_results)
        reads == ReadsCache(cache, key, force_refresh)
        hit == reads /\ IsFresh(cache[key], now)
        cache1 == IF reads /\ ~hit THEN Without(cache, key) ELSE cache
        owner1 == IF reads /\ ~hit THEN Without(owner, key) ELSE owner
        args == [user_id |-> user_id, query |-> query, max_results |-> max_results]
        obs == [user_id |-> user_id, query |-> query, max_results |-> max_results,
                force_refresh |-> force_refresh, key |-> key, time |-> now,
                dbUp |-> dbUp, vector |-> vector_courses, context |-> user_context,
                before |-> IF key \in DOMAIN cache THEN Some(cache[key]) ELSE None,
                storedBy |-> IF key \in DOMAIN owner THEN Some(owner[key]) ELSE None]
    IN  /\ Len(hist) < MaxRequests
        /\ IF hit
           THEN /\ hist' = Append(hist, obs @@ [path |-> "hit", computeRan |-> FALSE,
                                                scoring |-> "none",
                                                content |-> <<>>, fused |-> <<>>,
                                                result |-> cache[key].data])
                /\ UNCHANGED <<cache, owner>>
           ELSE IF ~computed.raised
           THEN /\ cache' = With(cache1, key, [data |-> computed.value, timestamp |-> now])
                /\ owner' = With(owner1, key, args)
                /\ hist' = Append(hist, obs @@ [path |-> "computed", computeRan |-> TRUE,
                                                scoring |-> computed.scoring,
                                                content |-> computed.content,
                                                fused |-> computed.fused,
                                                result |-> computed.value])
           ELSE /\ cache' = cache1
                /\ owner' = owner1
                /\ hist' = Append(hist, obs @@ [path |-> "fallback", computeRan |-> TRUE,
                                                scoring |-> computed.scoring,
                                                content |-> computed.content,
                                                fused |-> computed.fused,
                                                result |-> get_fallback_recommendations(
                                                              max_results, dbUp)])

\* A call of get_personalized_recommendations with nothing else going on.
RequestGiven(user_id, query, user_context, max_results, force_refresh, vector_courses, dbUp, computed) ==
    /\ EngineCall(user_id, query, user_context, max_results, force_refresh,
                  vector_courses, dbUp, computed)
    /\ UNCHANGED now
    /\ UNCHANGED fuseVars
    /\ UNCHANGED scoreVars
    /\ UNCHANGED explainVars
    /\ UNCHANGED unitVars
    /\ UNCHANGED storeVars
    /\ UNCHANGED flightVars

\* A call that retrieves its content candidates from the stores read by the
\* engine.
RequestWith(user_id, query, user_context, max_results, force_refresh, vector_courses, dbUp) ==
    RequestGiven(user_id, query, user_context, max_results, force_refresh,
                 vector_courses, dbUp,
                 ComputePath(user_id, query, user_context, max_results,
                             vector_courses, dbUp))

\* A call whose user_context is the one get_user_context builds from the
\* stores read by the engine.
Request(user_id, query, max_results, force_refresh, vector_courses, dbUp) ==
    RequestWith(user_id, query, Some(get_user_context(user_id)), max_results,
                force_refresh, vector_courses, dbUp)

\* Time passes between requests.
Tick ==
    /\ now + (CacheTTL \div 2) <= MaxTime
    /\ now' = now + (CacheTTL \div 2)
    /\ UNCHANGED <<cache, owner, hist>>
    /\ UNCHANGED fuseVars
    /\ UNCHANGED scoreVars
    /\ UNCHANGED explainVars
    /\ UNCHANGED unitVars
    /\ UNCHANGED storeVars
    /\ UNCHANGED flightVars

\* The arguments of the calls of get_personalized_recommendations: a base
\* call and the calls that differ from it, or from one another, in exactly
\* one of user id, query and result count.  max_results is an int of any
\* value to the method; the bounds 1..20 belong to the request model of the
\* routes.
RequestArgs ==
    { <<1, None, 2>>, <<2, None, 2>>, <<1, Some(<<"None">>), 2>>,
      <<1, Some(<<"python">>), 2>>, <<1, None, 0>> }

\* What a call meets: the list the Vector Index returns and whether the
\* database answers.
Environments ==
    { [vector |-> v, dbUp |-> TRUE] : v \in VectorOutcomes }
    \cup { [vector |-> <<UnratedVectorCandidate>>, dbUp |-> FALSE] }

\* get_personalized_recommendations called on the engine.
Serve ==
    \E args \in RequestArgs, force_refresh \in BOOLEAN, env \in Environments :
        Request(args[1], args[2], args[3], force_refresh, env.vector, env.dbUp)

\* The calls served when the sources fail independently: the two users
\* without a query and a query that the content filter matches.
RetrievalArgs == { <<1, None, 2>>, <<2, None, 2>>, <<1, Some(<<"python">>), 2>> }

\* Answers of the Vector Index with an object that lacks one of the other
\* properties or holds null topics, alone or ranked behind two complete
\* objects.
IncompleteOutcomes ==
    { <<Lacking(VectorCandidate(Catalog[3], 80, TRUE), key)>> :
        key \in RequiredKeys \ {"rating", "duration"} }
    \cup { <<NullTopics(VectorCandidate(Catalog[3], 80, TRUE))>> }
    \cup { << VectorCandidate(Catalog[2], 80, TRUE), VectorCandidate(Catalog[1], 60, TRUE),
              Lacking(VectorCandidate(Catalog[3], 60, TRUE), "description") >> }

\* Every outcome of the Vector Index (the empty list also stands for a
\* search that failed, lines 164-166) with the database answering or not
\* from the content query on, and the incomplete answers with the content
\* query failing.
SourceOutcomes ==
    { [vector |-> v, dbUp |-> d] : v \in VectorOutcomes, d \in BOOLEAN }
    \cup { [vector |-> v, dbUp |-> FALSE] : v \in IncompleteOutcomes }

ServeDegraded ==
    \E args \in RetrievalArgs, force_refresh \in BOOLEAN, env \in SourceOutcomes :
        Request(args[1], args[2], args[3], force_refresh, env.vector, env.dbUp)

Init ==
    /\ EngineIdle
    /\ FuseIdle
    /\ ScoreIdle
    /\ ExplainIdle
    /\ UnitIdle
    /\ StoreIdle
    /\ FlightIdle

Next == Serve \/ Tick

Spec == Init /\ [][Next]_vars

\* Calls that the compute path may not survive, for the limits the one
\* caller of _get_fallback_recommendations (line 73) passes on, which are
\* the limits the request model accepts, an integer from 1 on or None
\* (models.py 80, recommendations.py 42 and 86-90): the Vector Index returns
\* an object without a rating or without a duration, and the database
\* answers or not.
MaxLimit == 4

FallbackLimits == {NoneLimit} \cup 1..MaxLimit

FailingVectors ==
    { <<UnratedVectorCandidate>>, <<VectorCandidate(Catalog[3], 80, FALSE)>> }

ServeFailing ==
    \E max_results \in FallbackLimits, force_refresh \in BOOLEAN,
       vector_courses \in FailingVectors, dbUp \in BOOLEAN :
        Request(1, None, max_results, force_refresh, vector_courses, dbUp)

NextFallback == ServeFailing \/ Tick

SpecFallback == Init /\ [][NextFallback]_vars

\* The calls follow one another within the lifetime of a cache entry: a
\* call recomputes when it names a new key or forces a refresh.
NextSources == ServeDegraded

SpecSources == Init /\ [][NextSources]_vars

-----------------------------------------------------------------------------
(* Result Cache and Fallback: properties *)

LastObs == hist[Len(hist)]

ArgsOf(o) == [user_id |-> o.user_id, query |-> o.query, max_results |-> o.max_results]

DescendingByRating(list) ==
    \A i, j \in 1..Len(list) : i < j => list[i].rating >= list[j].rating

FromCatalog(list) ==
    \A i \in 1..Len(list) :
        \E k \in 1..Len(Catalog) :
            /\ Catalog[k].id = list[i].id
            /\ Get(Catalog[k].rating) = list[i].rating

EntryTime(o) == IF o.path = "hit" THEN Get(o.before).timestamp ELSE o.time

\* Calls i < j with the same arguments, no force_refresh after call i up to
\* and including call j, and call j made before the TTL elapsed.
SameCallAgain(i, j) ==
    /\ i < j
    /\ ArgsOf(hist[i]) = ArgsOf(hist[j])
    /\ \A k \in (i + 1)..j : ~hist[k].force_refresh
    /\ hist[j].time - EntryTime(hist[i]) < CacheTTL

\* C2 as stated: the second of two such calls returns the list of the first
\* and does not run the compute path.
C2_SecondCallCached ==
    \A i, j \in 1..Len(hist) :
        SameCallAgain(i, j) =>
            /\ hist[j].result = hist[i].result
            /\ ~hist[j].computeRan

\* C2 amended: this holds when the first call returned a computed or cached
\* list; a first call that ended in the fallback stores nothing.
C2_SecondCallCachedUnlessFallback ==
    \A i, j \in 1..Len(hist) :
        (SameCallAgain(i, j) /\ hist[i].path # "fallback") =>
            /\ hist[j].result = hist[i].result
            /\ hist[j].path = "hit"
            /\ ~hist[j].computeRan

\* C2 witness: a second call served from the entry of the first, later in
\* time, with a non-empty list.
C2_Witness ==
    \E i, j \in 1..Len(hist) :
        /\ SameCallAgain(i, j)
        /\ hist[i].path = "computed"
        /\ hist[j].path = "hit"
        /\ hist[j].time > hist[i].time
        /\ hist[j].result # <<>>

\* C3: a call with force_refresh runs the compute path whatever the cache
\* holds, and when it succeeds the entry of its key is its result with the
\* timestamp of the call.
C3_ForceRefreshRecomputes ==
    Len(hist) > 0 =>
        (LastObs.force_refresh =>
            /\ LastObs.computeRan
            /\ LastObs.path # "hit"
            /\ LastObs.path = "computed" =>
                /\ LastObs.key \in DOMAIN cache
                /\ cache[LastObs.key] = [data |-> LastObs.result,
                                         timestamp |-> LastObs.time])

\* C3 witness: a forced call that found an unexpired entry and replaced it
\* by a different list at a later time.
C3_Witness ==
    /\ Len(hist) > 0
    /\ LastObs.force_refresh
    /\ ~IsNone(LastObs.before)
    /\ LastObs.time - Get(LastObs.before).timestamp < CacheTTL
    /\ LastObs.time > Get(LastObs.before).timestamp
    /\ LastObs.path = "computed"
    /\ LastObs.result # Get(LastObs.before).data
    /\ cache[LastObs.key].timestamp = LastObs.time

\* A step that serves a call: the observation it appends.
Served == Len(hist') = Len(hist) + 1

NewObs == hist'[Len(hist')]

\* C4, one step: an entry leaves the cache only in a step that serves an
\* unforced call for its key after the TTL has been reached; a call that
\* reads an entry aged TTL or more does not return it, runs the compute
\* path, and on success leaves a whole new entry stamped with the time of
\* the call; a call served from the cache read an entry younger than TTL.
C4_Step ==
    /\ \A k \in DOMAIN cache :
        (k \notin DOMAIN cache' \/ cache'[k] # cache[k]) =>
            /\ Served
            /\ NewObs.key = k
            /\ NewObs.path # "hit"
    /\ \A k \in DOMAIN cache \ DOMAIN cache' :
            /\ ~NewObs.force_refresh
            /\ NewObs.time - cache[k].timestamp >= CacheTTL
            /\ NewObs.path = "fallback"
    /\ Served =>
        /\ NewObs.path = "hit" =>
            /\ NewObs.key \in DOMAIN cache
            /\ NewObs.time - cache[NewObs.key].timestamp < CacheTTL
            /\ NewObs.result = cache[NewObs.key].data
        /\ (NewObs.key \in DOMAIN cache
                /\ NewObs.time - cache[NewObs.key].timestamp >= CacheTTL) =>
            /\ NewObs.path # "hit"
            /\ NewObs.computeRan
            /\ NewObs.path = "computed" =>
                cache'[NewObs.key] = [data |-> NewObs.result, timestamp |-> NewObs.time]

\* C4: an entry whose age has reached the TTL is never returned; expiry is
\* acted on only by a request for the key, which recomputes and, on
\* success, stores a new entry with a fresh timestamp.
C4_ExpiredNeverServed == [][C4_Step]_vars

\* C4 witness: an unforced call that found an entry aged exactly the TTL and
\* stored a new one.
C4_Witness ==
    /\ Len(hist) > 0
    /\ ~LastObs.force_refresh
    /\ ~IsNone(LastObs.before)
    /\ LastObs.time - Get(LastObs.before).timestamp = CacheTTL
    /\ LastObs.path = "computed"
    /\ cache[LastObs.key].timestamp = LastObs.time

\* C5: a call served from the cache is served from an entry stored by a
\* call with the same user id, the same query and the same max_results.
C5_NoSharedEntry ==
    \A i \in 1..Len(hist) :
        hist[i].path = "hit" => Get(hist[i].storedBy) = ArgsOf(hist[i])

\* C6: a call with an absent query and a call with a query string, for the
\* same user id and max_results, use different cache entries.
C6_AbsentQueryDistinct ==
    \A i, j \in 1..Len(hist) :
        (/\ IsNone(hist[i].query)
         /\ ~IsNone(hist[j].query)
         /\ hist[i].user_id = hist[j].user_id
         /\ hist[i].max_results = hist[j].max_results)
        => hist[i].key # hist[j].key

-----------------------------------------------------------------------------
(* Character strings.  Where the code inspects a text character by
   character (str.strip, str.split, re.findall) the text is a TLA+ string:
   Len, \o and SubSeq apply to it. *)

CharAt(s, i) == SubSeq(s, i, i)

\* s[i:], with i counted from 1.
From(s, i) == SubSeq(s, i, Len(s))

\* Characters for which str.isspace() holds, among those of the model.
IsSpace(c) == c = " "

RECURSIVE LStrip(_)
LStrip(s) ==
    IF s # "" /\ IsSpace(CharAt(s, 1)) THEN LStrip(From(s, 2)) ELSE s

RECURSIVE RStrip(_)
RStrip(s) ==
    IF s # "" /\ IsSpace(CharAt(s, Len(s))) THEN RStrip(SubSeq(s, 1, Len(s) - 1))
    ELSE s

\* str.strip().
Strip(s) == LStrip(RStrip(s))

UpperLetters == "ABCDEFGHIJKLMNOPQRSTUVWXYZ"

LowerLetters == "abcdefghijklmnopqrstuvwxyz"

Digits == "0123456789"

\* c is one of the characters of the string chars.
IsOneOf(c, chars) == \E i \in 1..Len(chars) : CharAt(chars, i) = c

LowerChar(c) ==
    IF IsOneOf(c, UpperLetters)
    THEN CharAt(LowerLetters, CHOOSE i \in 1..26 : CharAt(UpperLetters, i) = c)
    ELSE c

\* str.lower(): character by character, the two halves of the text apart.
RECURSIVE LowerStr(_)
LowerStr(s) ==
    IF s = "" THEN ""
    ELSE IF Len(s) = 1 THEN LowerChar(s)
    ELSE LowerStr(SubSeq(s, 1, Len(s) \div 2)) \o LowerStr(From(s, Len(s) \div 2 + 1))

\* The class \w of re, on the characters of the model.
IsWordChar(c) ==
    IsOneOf(c, LowerLetters) \/ IsOneOf(c, UpperLetters) \/ IsOneOf(c, Digits) \/ c = "_"

\* s has prefix at position i.
StartsWithAt(s, i, prefix) ==
    /\ i + Len(prefix) - 1 <= Len(s)
    /\ SubSeq(s, i, i + Len(prefix) - 1) = prefix

\* Length of the longest run of word characters from position i on, and of
\* the longest run of characters that are not among the refused ones.
RunOfWord(s, i) ==
    LET stops == {j \in i..Len(s) : ~IsWordChar(CharAt(s, j))} IN
    IF i > Len(s) THEN 0
    ELSE IF stops = {} THEN Len(s) - i + 1
    ELSE (CHOOSE j \in stops : \A k \in stops : j <= k) - i

RunOutside(s, i, refused) ==
    LET stops == {j \in i..Len(s) : IsOneOf(CharAt(s, j), refused)} IN
    IF i > Len(s) THEN 0
    ELSE IF stops = {} THEN Len(s) - i + 1
    ELSE (CHOOSE j \in stops : \A k \in stops : j <= k) - i

\* re.findall(r"\b\w+\b", s): the maximal runs of word characters.
RECURSIVE WordTokensFrom(_, _)
WordTokensFrom(s, i) ==
    LET starts == {j \in i..Len(s) : RunOfWord(s, j) > 0} IN
    IF starts = {} THEN <<>>
    ELSE LET j == CHOOSE a \in starts : \A b \in starts : a <= b
             n == RunOfWord(s, j)
         IN  <<SubSeq(s, j, j + n - 1)>> \o WordTokensFrom(s, j + n)

WordTokens(s) == WordTokensFrom(s, 1)

\* str.split(): the maximal runs of characters that are not white space.
RECURSIVE SplitFrom(_, _)
SplitFrom(s, i) ==
    LET starts == {j \in i..Len(s) : RunOutside(s, j, " ") > 0} IN
    IF starts = {} THEN <<>>
    ELSE LET j == CHOOSE a \in starts : \A b \in starts : a <= b
             n == RunOutside(s, j, " ")
         IN  <<SubSeq(s, j, j + n - 1)>> \o SplitFrom(s, j + n)

Split(s) == SplitFrom(s, 1)

\* sep.join(parts).
RECURSIVE Join(_, _)
Join(parts, sep) ==
    IF parts = <<>> THEN ""
    ELSE IF Len(parts) = 1 THEN parts[1]
    ELSE parts[1] \o sep \o Join(Tail(parts), sep)

-----------------------------------------------------------------------------
(* The Vector Index: WeaviateService.search_similar_courses *)

\* The literal part of each negative pattern; every pattern ends with the
\* group ([^,.!?]+).
NegativePatterns ==
    << "don't want to learn ", "not interested in ", "avoid ", "but not ",
       "except ", "without ", "no ", "I don't like " >>

Punctuation == ",.!?"

\* re.findall(prefix + "([^,.!?]+)", s) from position i on: the matches are
\* found left to right and do not overlap; the group takes every character
\* up to the next punctuation mark or the end.
RECURSIVE FindAllPhrases(_, _, _)
FindAllPhrases(s, prefix, i) ==
    LET found == {j \in i..Len(s) :
                    /\ StartsWithAt(s, j, prefix)
                    /\ RunOutside(s, j + Len(prefix), Punctuation) > 0}
    IN  IF found = {} THEN <<>>
        ELSE LET j == CHOOSE a \in found : \A b \in found : a <= b
                 start == j + Len(prefix)
                 n == RunOutside(s, start, Punctuation)
             IN  <<SubSeq(s, start, start + n - 1)>>
                 \o FindAllPhrases(s, prefix, start + n)

\* re.findall(r"not (\w+)", s) from position i on.
RECURSIVE FindAllNotWord(_, _)
FindAllNotWord(s, i) ==
    LET found == {j \in i..Len(s) :
                    StartsWithAt(s, j, "not ") /\ RunOfWord(s, j + 4) > 0}
    IN  IF found = {} THEN <<>>
        ELSE LET j == CHOOSE a \in found : \A b \in found : a <= b
                 start == j + 4
                 n == RunOfWord(s, start)
             IN  <<SubSeq(s, start, start + n - 1)>> \o FindAllNotWord(s, start + n)

RECURSIVE Flatten(_)
Flatten(lists) ==
    IF lists = <<>> THEN <<>> ELSE Head(lists) \o Flatten(Tail(lists))

\* The words of every match of one pattern, in order.
KeywordsOfPattern(query_lower, prefix) ==
    LET matches == FindAllPhrases(query_lower, prefix, 1) IN
    Flatten([k \in 1..Len(matches) |-> Split(matches[k])])

\* The loop over negative_patterns, shared by the service (lines 360-365)
\* and the engine (lines 99-104): the keywords in the order found.
PatternKeywords(query_text) ==
    LET query_lower == LowerStr(query_text) IN
    Flatten([p \in 1..Len(NegativePatterns) |->
                KeywordsOfPattern(query_lower, NegativePatterns[p])])

\* _extract_negative_keywords: list(set(...)), whose order is not
\* defined; the result is the set.
extract_negative_keywords(query_text) ==
    Range(PatternKeywords(query_text))
    \cup Range(FindAllNotWord(LowerStr(query_text), 1))

\* Mutant of the exclusion test: a keyword is looked for anywhere in the
\* title and the description.
should_exclude_course_substring(course_props, negative_keywords) ==
    \E keyword \in negative_keywords :
        LET kw == Strip(LowerStr(keyword))
            text == LowerStr(course_props.title \o " " \o course_props.description)
        IN  /\ Len(kw) >= 3
            /\ \E i \in 1..Len(text) : StartsWithAt(text, i, kw)

\* _should_exclude_course on the set of negative keywords.
should_exclude_course(course_props, negative_keywords) ==
    LET title_tokens == Range(WordTokens(LowerStr(course_props.title)))
        topic_tokens == {LowerStr(course_props.topics[k]) :
                            k \in 1..Len(course_props.topics)}
    IN  \E keyword \in negative_keywords :
            LET kw == Strip(LowerStr(keyword)) IN
            /\ Len(kw) >= 3
            /\ (kw \in topic_tokens \/ kw \in title_tokens)

\* The loop of lines 311-334 over the objects the index returned, with
\* count results appended so far.  distance is Optional, in hundredths.
\* certainty = 1.0 - distance (line 313), a float: distance is the float
\* nearest to its hundredths, at most 1.0, and the difference is rounded.
Certainty(distance) == FloatSub(Float_1_0, FloatOf(distance, 100))

\* The loop of lines 310-334.  distance and min_certainty are in
\* hundredths; "certainty >= min_certainty" compares the floats, and
\* similarity_score is the float certainty.
RECURSIVE FormatResults(_, _, _, _, _)
FormatResults(objects, negative_keywords, limit, min_certainty, count) ==
    IF objects = <<>> THEN <<>>
    ELSE LET obj == Head(objects)
             distance == IF IsNone(obj.distance) THEN 100 ELSE Get(obj.distance)
             certainty == Certainty(distance)
         IN  IF FloatLeq(FloatOf(min_certainty, 100), certainty)
                /\ ~should_exclude_course(obj.properties, negative_keywords)
             THEN <<[id |-> obj.properties.courseId, title |-> obj.properties.title,
                     description |-> obj.properties.description,
                     topics |-> obj.properties.topics,
                     similarity_score |-> certainty, distance |-> distance]>>
                  \o (IF count + 1 >= limit THEN <<>>
                      ELSE FormatResults(Tail(objects), negative_keywords, limit,
                                         min_certainty, count + 1))
             ELSE FormatResults(Tail(objects), negative_keywords, limit,
                                min_certainty, count)

\* near_vector(limit = search_limit) on index, the objects the collection
\* holds for the query, nearest first (line 301).  A positive limit gives
\* the nearest search_limit of them.  What the server answers for a limit
\* below 1 is not in the source: it may be any list of objects, which is
\* every value index itself ranges over, or an error, which is up = FALSE.
near_vector(index, search_limit) ==
    IF search_limit >= 1 THEN SubSeq(index, 1, Min(search_limit, Len(index)))
    ELSE index

\* search_similar_courses.  index is what the collection holds for the
\* query, nearest first; the call asks for limit * 3 objects.  up: the
\* client exists, the embedding could be generated and the query did not
\* raise (lines 276-279, 293-295, 339-341).
search_similar_courses(query_text, limit, min_certainty, exclude_topics, index, up) ==
    LET negative_keywords == extract_negative_keywords(query_text)
                             \cup Range(exclude_topics)
        search_limit == limit * 3
        objects == near_vector(index, search_limit)
    IN  [negative_keywords |-> negative_keywords,
         courses |-> IF up THEN FormatResults(objects, negative_keywords, limit,
                                              min_certainty, 0)
                     ELSE <<>>]

-----------------------------------------------------------------------------
(* Search runs: search_similar_courses called on drawn arguments. *)

MaxIndexLen == 4

MaxSearchLimit == 2

\* min_certainty as the engine passes it (0.4), in hundredths.
MinCertainty == 40

\* min_certainty of the searches: 0.4 of the engine, and of /semantic-search,
\* which passes on the float min_similarity of the request, its default
\* 0.25 and 0.2 (recommendations.py 164, 181-186).
MinCertainties == {20, 25, MinCertainty}

\* Objects of the Course collection, nearest first.  The last one carries
\* no distance.
IndexObjects ==
    << [properties |-> [courseId |-> "c2", title |-> "Statistics for Data Science",
                        description |-> "Learn statistics with python",
                        topics |-> <<"Data Science", "Statistics">>],
        distance |-> Some(10)],
       [properties |-> [courseId |-> "c4", title |-> "Go Programming",
                        description |-> "Concurrency in go",
                        topics |-> <<"Go", "backend">>],
        distance |-> Some(20)],
       [properties |-> [courseId |-> "c3", title |-> "Web Design",
                        description |-> "No statistics needed",
                        topics |-> <<"web">>],
        distance |-> Some(30)],
       [properties |-> [courseId |-> "c5", title |-> "Biostatistics Basics",
                        description |-> "Health data",
                        topics |-> <<"health">>],
        distance |-> Some(41)],
       [properties |-> [courseId |-> "c6", title |-> "Rust Systems",
                        description |-> "Memory safety",
                        topics |-> <<"systems">>],
        distance |-> Some(80)],
       [properties |-> [courseId |-> "c1", title |-> "Python Basics",
                        description |-> "Learn python",
                        topics |-> <<"Python">>],
        distance |-> None] >>

\* The elements of seq at the positions of the set, in order.
RECURSIVE Pick(_, _)
Pick(seq, positions) ==
    IF positions = {} THEN <<>>
    ELSE LET k == CHOOSE x \in positions : \A y \in positions : x <= y IN
         <<seq[k]>> \o Pick(seq, positions \ {k})

\* What the index can hold for a query: some of the objects, nearest first.
Indexes ==
    {Pick(IndexObjects, ps) : ps \in {q \in SUBSET (1..Len(IndexObjects)) :
                                        Cardinality(q) <= MaxIndexLen}}

ExcludeLists ==
    { <<>>, <<"statistics">>, <<"go">>, <<" Web ">>, <<"bio", "design">>,
      <<"data science">> }

SearchTexts == {"data science", "python but not web"}

\* limit is an int the /semantic-search route passes on unvalidated
\* (recommendations.py 163, 181-186): negative, zero or positive.
SearchLimits == (0 - 1)..MaxSearchLimit

InitSearch ==
    /\ EngineIdle
    /\ FuseIdle
    /\ ScoreIdle
    /\ ExplainIdle
    /\ StoreIdle
    /\ FlightIdle
    /\ uOp = "search_similar_courses"
    /\ uIn \in [query_text : SearchTexts, limit : SearchLimits,
                 min_certainty : MinCertainties, exclude_topics : ExcludeLists,
                 index : Indexes, up : BOOLEAN]
    /\ uOut = None

Search ==
    /\ uOp = "search_similar_courses"
    /\ IsNone(uOut)
    /\ uOut' = Some(search_similar_courses(uIn.query_text, uIn.limit,
                                           uIn.min_certainty, uIn.exclude_topics,
                                           uIn.index, uIn.up))
    /\ UNCHANGED <<uOp, uIn>>
    /\ UNCHANGED engineVars
    /\ UNCHANGED fuseVars
    /\ UNCHANGED scoreVars
    /\ UNCHANGED explainVars
    /\ UNCHANGED storeVars
    /\ UNCHANGED flightVars

NextSearch == Search

SpecSearch == InitSearch /\ [][NextSearch]_vars

\* The keyword occurs in the text as a whole word: between two characters
\* that are not word characters, or the ends of the text.
OccursAsWord(kw, text) ==
    \E i \in 1..Len(text) :
        /\ StartsWithAt(text, i, kw)
        /\ i = 1 \/ ~IsWordChar(CharAt(text, i - 1))
        /\ i + Len(kw) > Len(text) \/ ~IsWordChar(CharAt(text, i + Len(kw)))

\* The course has the keyword as a whole title token or as a topic tag,
\* case-insensitive.
NamesKeyword(props, keyword) ==
    LET kw == Strip(LowerStr(keyword)) IN
    /\ kw # ""
    /\ \/ OccursAsWord(kw, LowerStr(props.title))
       \/ \E k \in 1..Len(props.topics) : LowerStr(props.topics[k]) = kw

\* The objects the loop may keep: those the index returned for limit * 3
\* whose certainty, the float 1.0 - distance, is at least min_certainty.
\* An object without a distance has certainty 0.0.
Considered(in) ==
    LET objects == near_vector(in.index, 3 * in.limit) IN
    SelectSeq(objects,
              LAMBDA o : ~FloatLess(IF IsNone(o.distance) THEN FloatZero
                                    ELSE Certainty(Get(o.distance)),
                                    FloatOf(in.min_certainty, 100)))

IdsOfObjects(objects) == [k \in 1..Len(objects) |-> objects[k].properties.courseId]

IdsOfCourses(courses) == [k \in 1..Len(courses) |-> courses[k].id]

\* C15 as stated: the search returns no course that has an exclusion
\* keyword as a whole title token or as a topic tag, drops no course for a
\* keyword that occurs only in its description or inside a longer word, and
\* returns at most limit courses: the result is the first limit of the
\* considered objects that name no keyword.
C15_ExclusionExact ==
    (uOp = "search_similar_courses" /\ ~IsNone(uOut) /\ uIn.up) =>
        LET out == Get(uOut)
            kept == SelectSeq(Considered(uIn),
                        LAMBDA o : \A kw \in out.negative_keywords :
                                        ~NamesKeyword(o.properties, kw))
        IN  /\ Len(out.courses) <= uIn.limit
            /\ \A k \in 1..Len(out.courses), kw \in out.negative_keywords :
                    ~NamesKeyword(out.courses[k], kw)
            /\ IdsOfCourses(out.courses)
                    = IdsOfObjects(SubSeq(kept, 1, Min(uIn.limit, Len(kept))))

\* The number of courses the loop of lines 311-334 can append: it tests
\* len(formatted_courses) >= limit only after an append, so a limit below 1
\* stops it after the first.
LoopBound(limit) == IF limit >= 1 THEN limit ELSE 1

\* C15 amended: a keyword of fewer than 3 characters (after trimming) is
\* ignored; for the other keywords the exclusion is exact for every limit.
\* The search returns at most limit courses for a limit of at least 1 and
\* at most one course for a limit below 1: the result is the first
\* LoopBound(limit) of the considered objects that name no long keyword.
C15_ExclusionExactForLongKeywords ==
    (uOp = "search_similar_courses" /\ ~IsNone(uOut) /\ uIn.up) =>
        LET out == Get(uOut)
            long == {kw \in out.negative_keywords : Len(Strip(LowerStr(kw))) >= 3}
            kept == SelectSeq(Considered(uIn),
                        LAMBDA o : \A kw \in long : ~NamesKeyword(o.properties, kw))
        IN  /\ uIn.limit >= 1 => Len(out.courses) <= uIn.limit
            /\ uIn.limit < 1 => Len(out.courses) <= 1
            /\ \A k \in 1..Len(out.courses), kw \in long :
                    ~NamesKeyword(out.courses[k], kw)
            /\ IdsOfCourses(out.courses)
                    = IdsOfObjects(SubSeq(kept, 1, Min(LoopBound(uIn.limit), Len(kept))))

\* C15 witness: a search with the keyword "statistics" that dropped the
\* course titled with it and kept the courses that have it in the
\* description and inside "Biostatistics".
C15_Witness ==
    /\ uOp = "search_similar_courses"
    /\ ~IsNone(uOut)
    /\ uIn.exclude_topics = <<"statistics">>
    /\ \E k \in 1..Len(uIn.index) : uIn.index[k].properties.courseId = "c2"
    /\ IdsOfCourses(Get(uOut).courses) = <<"c3", "c5">>

\* C15, the limit below 1: a search with limit 0 that the index answered
\* with two objects returned the first that names no keyword.
C15_BelowOneReturnsOne ==
    /\ uOp = "search_similar_courses"
    /\ ~IsNone(uOut)
    /\ uIn.limit = 0
    /\ uIn.exclude_topics = <<"statistics">>
    /\ IdsOfObjects(uIn.index) = <<"c2", "c3">>
    /\ IdsOfCourses(Get(uOut).courses) = <<"c3">>

\* C15, the certainty just below the threshold: at distance 0.8 the float
\* 1.0 - 0.8 is below 0.2, and the search with min_certainty 0.2 dropped
\* the object.
C15_RoundedBelowThreshold ==
    /\ uOp = "search_similar_courses"
    /\ ~IsNone(uOut)
    /\ uIn.up
    /\ uIn.limit = 2
    /\ uIn.min_certainty = 20
    /\ uIn.exclude_topics = <<>>
    /\ IdsOfObjects(uIn.index) = <<"c5", "c6">>
    /\ IdsOfCourses(Get(uOut).courses) = <<"c5">>
    /\ FloatLess(FloatOf(59, 100), Get(uOut).courses[1].similarity_score)
    /\ Approx(Get(uOut).courses[1].similarity_score, 100) = 59

-----------------------------------------------------------------------------
(* Extraction runs: the negative keywords of a drawn query, as the service
   extracts them (_extract_negative_keywords) and as the engine does
   (exclude_topics, lines 86-104). *)

MaxQueryWords == 3

QueryWords == {"piano", "lessons", "not", "no", "but", "statistics", "without"}

ScenarioQuery == "I want data science but not statistics"

\* The explicit queries: the scenario of the specification and every text
\* of up to MaxQueryWords words separated by single spaces.
ExplicitQueries ==
    {ScenarioQuery}
    \cup {Join(ws, " ") : ws \in UNION {[1..n -> QueryWords] : n \in 1..MaxQueryWords}}

InitExtract ==
    /\ EngineIdle
    /\ FuseIdle
    /\ ScoreIdle
    /\ ExplainIdle
    /\ StoreIdle
    /\ FlightIdle
    /\ uOp = "extract_negative_keywords"
    /\ uIn \in [query : ExplicitQueries]
    /\ uOut = None

Extract ==
    /\ uOp = "extract_negative_keywords"
    /\ IsNone(uOut)
    /\ uOut' = Some([keywords |-> extract_negative_keywords(uIn.query),
                     exclude_topics |-> PatternKeywords(uIn.query)])
    /\ UNCHANGED <<uOp, uIn>>
    /\ UNCHANGED engineVars
    /\ UNCHANGED fuseVars
    /\ UNCHANGED scoreVars
    /\ UNCHANGED explainVars
    /\ UNCHANGED storeVars
    /\ UNCHANGED flightVars

NextExtract == Extract

SpecExtract == InitExtract /\ [][NextExtract]_vars

\* The negative phrases of the specification, lower case.
NegativePhrases ==
    { "don't want to learn", "not interested in", "avoid", "but not", "except",
      "without", "no", "i don't like", "not" }

\* The query contains a negative phrase, as whole words.
HasNegativePhrase(query) ==
    \E phrase \in NegativePhrases : OccursAsWord(phrase, LowerStr(query))

\* C16: the query "I want data science but not statistics" yields an
\* exclusion set that contains "statistics", and a query without a negative
\* phrase yields the empty exclusion set.
C16_NegativeIntentExtracted ==
    (uOp = "extract_negative_keywords" /\ ~IsNone(uOut)) =>
        /\ uIn.query = ScenarioQuery =>
            /\ "statistics" \in Get(uOut).keywords
            /\ "statistics" \in Range(Get(uOut).exclude_topics)
        /\ ~HasNegativePhrase(uIn.query) =>
            /\ Get(uOut).keywords = {}
            /\ Get(uOut).exclude_topics = <<>>

\* The scenario half of C16, and what the code keeps of the other half: a
\* query in which no pattern text occurs at all, inside a word or not,
\* yields the empty set.
C16_ScenarioExtracted ==
    (uOp = "extract_negative_keywords" /\ ~IsNone(uOut)) =>
        /\ uIn.query = ScenarioQuery =>
            /\ Get(uOut).keywords = {"statistics"}
            /\ Get(uOut).exclude_topics = <<"statistics">>
        /\ (\A i \in 1..Len(uIn.query) :
                /\ ~StartsWithAt(LowerStr(uIn.query), i, "not ")
                /\ \A p \in 1..Len(NegativePatterns) :
                        ~StartsWithAt(LowerStr(uIn.query), i, NegativePatterns[p])) =>
            /\ Get(uOut).keywords = {}
            /\ Get(uOut).exclude_topics = <<>>

-----------------------------------------------------------------------------
(* The explanation step: LLMService.generate_recommendation_reasoning and
   the recommendations route that calls it. *)

\* self._cache_ttl of LLMService, in seconds.
ReasoningTTL == 600

MaxReasoningTime == 600

TimeoutSentence ==
    "I've selected these courses based on your preferences and learning history."

HttpErrorSentence == "These courses are recommended based on your learning profile."

UnexpectedSentence ==
    "These courses are selected based on your preferences and learning history."

MissingFieldSentence == "I'm having trouble generating a response right now."

\* What the call of the Ollama API meets: an answer whose "response" field
\* is a text, a timeout, another transport or status error, a body that is
\* not JSON, a JSON body without the field, a field that is null.
OllamaTexts == {"Python fits your goals.", "  Both match your level. "}

OllamaOutcomes ==
    { [kind |-> "ok", text |-> t] : t \in OllamaTexts }
    \cup { [kind |-> k, text |-> ""] :
             k \in {"timeout", "http_error", "bad_json", "no_field", "null_field"} }

\* Mutant of the error handlers: the message of the exception is returned.
call_ollama_returns_error_text(outcome) ==
    CASE outcome.kind = "ok"         -> outcome.text
      [] outcome.kind = "timeout"    -> "ReadTimeout"
      [] outcome.kind = "http_error" -> "503 Service Unavailable"
      [] outcome.kind = "no_field"   -> MissingFieldSentence
      [] OTHER                       -> UnexpectedSentence

\* _call_ollama: every exception is caught and answered by a sentence.
call_ollama(outcome) ==
    CASE outcome.kind = "ok"         -> outcome.text
      [] outcome.kind = "timeout"    -> TimeoutSentence
      [] outcome.kind = "http_error" -> HttpErrorSentence
      [] outcome.kind = "no_field"   -> MissingFieldSentence
      [] OTHER                       -> UnexpectedSentence

\* f"reasoning_{hash(str(ids))}_{hash(str(preferences))}"; the hashes of the
\* few values of the model do not collide.
reasoning_key(recommendations, user_context) ==
    <<"reasoning", [i \in 1..Len(recommendations) |-> recommendations[i].id],
      user_context.preferences>>

\* Mutant of the freshness test of the reasoning cache: the time-to-live of
\* the engine cache is used.
ReasoningFreshEngineTTL(entry, t) == t - entry.timestamp < CacheTTL

\* datetime.now() - cache_entry['timestamp'] < timedelta(seconds=600).
ReasoningFresh(entry, t) == t - entry.timestamp < ReasoningTTL

\* The calls of the two recommendation routes by one user, who is the user
\* of the path.  GET has no query and always wants the explanation, and
\* its force_refresh is left at the default; POST has no force_refresh.
RecommendCalls ==
    { [route |-> "POST", user_id |-> 1, query |-> None, max_results |-> m,
       include_reasoning |-> b, force_refresh |-> FALSE] :
          m \in MaxResultsValues, b \in BOOLEAN }
    \cup { [route |-> "GET", user_id |-> 1, query |-> None, max_results |-> m,
            include_reasoning |-> TRUE, force_refresh |-> FALSE] :
               m \in MaxResultsValues }

\* What a call of a route meets in the sources: two complete objects from
\* the Vector Index, or an object without a rating while the database does
\* not answer, which leaves the engine with the empty fallback list.
RouteEnvironments ==
    { [vector |-> << VectorCandidate(Catalog[2], 80, TRUE),
                     VectorCandidate(Catalog[1], 60, TRUE) >>, dbUp |-> TRUE],
      [vector |-> <<UnratedVectorCandidate>>, dbUp |-> FALSE] }

NoOutcome == [kind |-> "none", text |-> ""]

\* The answer of a route: RecommendationResponse(courses, reasoning, ...).
\* given is the list the engine returned to the call, path the way the
\* explanation was obtained, outcome what the Ollama API did if called.
RouteResponse(courses, reasoning, given, path, outcome) ==
    Some([status |-> 200, courses |-> courses, reasoning |-> reasoning,
          given |-> given, path |-> path, outcome |-> outcome, time |-> now])

\* An integer max_results outside 1..20 (models.py 80; null is accepted,
\* ValidMaxResults): the body of POST is rejected
\* before the handler runs (422); GET builds the RecommendationRequest
\* inside its try block (lines 86-90), and the ValidationError is answered
\* by the handler of line 117 (500).
RouteRejects(call) ==
    Some([status |-> IF call.route = "GET" THEN 500 ELSE 422, courses |-> <<>>,
          reasoning |-> None, given |-> <<>>, path |-> "rejected",
          outcome |-> NoOutcome, time |-> now])

\* The route after the engine has returned recommendations (POST lines
\* 45-52, GET lines 100-107), up to its answer or to the point where
\* generate_recommendation_reasoning waits for the Ollama API
\* (llm_service.py 30-58).  A cache hit is answered at once; when both
\* prompts raise, the outer handler answers; otherwise the call is in
\* flight.  rid is the position of the engine call in hist.
StartReasoning(wanted, recommendations, key, prompt_raises, rid) ==
    LET hit == key \in DOMAIN rCache /\ ReasoningFresh(rCache[key], now)
        c1 == IF key \in DOMAIN rCache /\ ~hit THEN Without(rCache, key) ELSE rCache
    IN  IF ~wanted \/ recommendations = <<>>
        THEN /\ rLast' = RouteResponse(recommendations, None, recommendations,
                                       "skipped", NoOutcome)
             /\ UNCHANGED <<rCache, pending>>
        ELSE IF hit
        THEN /\ rLast' = RouteResponse(recommendations, Some(rCache[key].data),
                                       recommendations, "cached", NoOutcome)
             /\ UNCHANGED <<rCache, pending>>
        ELSE IF prompt_raises
        THEN /\ rLast' = RouteResponse(recommendations, Some(TimeoutSentence),
                                       recommendations, "handler", NoOutcome)
             /\ rCache' = c1
             /\ UNCHANGED pending
        ELSE /\ pending' = pending \cup {[rid |-> rid, key |-> key,
                                          courses |-> recommendations]}
             /\ rCache' = c1
             /\ UNCHANGED rLast

\* The user context a route builds: the rows of the user, or the default
\* context when the database does not answer (lines 346-411).
RouteContext(user_id, dbUp) ==
    IF dbUp THEN get_user_context(user_id) ELSE DefaultContext

\* POST and GET /api/recommendations/{user_id} by the user of the path,
\* from the start of the handler: the request model, the user context, the
\* call of the engine, which reads and writes the result cache, and the
\* explanation up to its answer or its wait.
RecommendRoute(call, env, prompt_raises) ==
    IF ~ValidMaxResults(call.max_results)
    THEN /\ rLast' = RouteRejects(call)
         /\ UNCHANGED <<cache, owner, hist, rCache, pending>>
    ELSE /\ EngineCall(call.user_id, call.query,
                       Some(RouteContext(call.user_id, env.dbUp)), call.max_results,
                       call.force_refresh, env.vector, env.dbUp,
                       ComputePath(call.user_id, call.query,
                                   Some(RouteContext(call.user_id, env.dbUp)),
                                   call.max_results, env.vector, env.dbUp))
         /\ StartReasoning(call.include_reasoning, hist'[Len(hist')].result,
                           reasoning_key(hist'[Len(hist')].result,
                                         RouteContext(call.user_id, env.dbUp)),
                           prompt_raises, Len(hist'))

BeginRecommend ==
    /\ \E call \in RecommendCalls, env \in RouteEnvironments, prompt_raises \in BOOLEAN :
        RecommendRoute(call, env, prompt_raises)
    /\ UNCHANGED now
    /\ UNCHANGED fuseVars
    /\ UNCHANGED scoreVars
    /\ UNCHANGED unitVars
    /\ UNCHANGED storeVars

\* The Ollama API answers a call in flight (llm_service.py 58-70, 190-222):
\* the text, or the sentence of the handler that caught the failure, is
\* stored under the key of the call and returned in the answer of the
\* route with the courses the call holds.
AnswerReasoning(p, outcome) ==
    /\ pending' = pending \ {p}
    /\ rCache' = With(rCache, p.key, [data |-> Strip(call_ollama(outcome)),
                                      timestamp |-> now])
    /\ rLast' = RouteResponse(p.courses, Some(Strip(call_ollama(outcome))),
                              hist[p.rid].result, "called", outcome)

FinishRecommend ==
    /\ \E p \in pending, outcome \in OllamaOutcomes : AnswerReasoning(p, outcome)
    /\ UNCHANGED <<cache, now, owner, hist>>
    /\ UNCHANGED fuseVars
    /\ UNCHANGED scoreVars
    /\ UNCHANGED unitVars
    /\ UNCHANGED storeVars

\* Time passes between the steps of the routes.
TickReasoning ==
    /\ now + (ReasoningTTL \div 2) <= MaxReasoningTime
    /\ now' = now + (ReasoningTTL \div 2)
    /\ UNCHANGED <<cache, owner, hist>>
    /\ UNCHANGED fuseVars
    /\ UNCHANGED scoreVars
    /\ UNCHANGED explainVars
    /\ UNCHANGED unitVars
    /\ UNCHANGED storeVars
    /\ UNCHANGED flightVars

NextExplain == BeginRecommend \/ FinishRecommend \/ TickReasoning

SpecExplain == Init /\ [][NextExplain]_vars

FallbackSentences ==
    {TimeoutSentence, HttpErrorSentence, UnexpectedSentence, MissingFieldSentence}

\* The explanation step of the response failed: the prompt could not be
\* built, or Ollama was called and did not answer with a text.
ExplanationFailed(r) ==
    \/ r.path = "handler"
    \/ r.path = "called" /\ r.outcome.kind # "ok"

\* C13: a failure or timeout of the explanation step does not fail the
\* response: the response is a success, carries the courses the engine
\* ranked, and its explanation is one of the fixed fallback sentences.
C13_ExplanationFailureHarmless ==
    (~IsNone(rLast) /\ ExplanationFailed(Get(rLast))) =>
        /\ Get(rLast).status = 200
        /\ Get(rLast).courses = Get(rLast).given
        /\ ~IsNone(Get(rLast).reasoning)
        /\ Get(Get(rLast).reasoning) \in FallbackSentences

\* C13 witness: a response with two courses whose explanation timed out.
C13_Witness ==
    /\ ~IsNone(rLast)
    /\ Get(rLast).path = "called"
    /\ Get(rLast).outcome.kind = "timeout"
    /\ Len(Get(rLast).courses) = 2
    /\ Get(rLast).reasoning = Some(TimeoutSentence)

-----------------------------------------------------------------------------
(* Retrieval failure: properties, under SpecSources *)

\* What the content source returned to the call of observation o.
ContentOf(o) == get_content_based_recommendations(o.user_id, o.query, o.dbUp)

\* Exactly one of the two sources failed in the call of observation o.
OnlyVectorFailed(o) == o.computeRan /\ o.vector = <<>> /\ o.dbUp

OnlyContentFailed(o) == o.computeRan /\ o.vector # <<>> /\ ~o.dbUp

\* The candidates of the source that answered.
SurvivingCandidates(o) == IF o.vector = <<>> THEN ContentOf(o) ELSE o.vector

DescendingBySimilarity(list) ==
    \A i, j \in 1..Len(list) :
        i < j => list[i].similarity_score >= list[j].similarity_score

\* The list is a ranking of the candidates alone: one response per
\* candidate up to max_results, fields as the candidate has them, in
\* non-increasing score order.
RankedFromAlone(result, candidates, max_results) ==
    /\ Len(result) = Min(max_results, Cardinality(IdsOf(candidates)))
    /\ DistinctIds(result)
    /\ DescendingBySimilarity(result)
    /\ \A i \in 1..Len(result) :
        \E k \in 1..Len(candidates) :
            /\ candidates[k].id = result[i].id
            /\ Some(result[i].rating) = candidates[k].rating
            /\ Some(result[i].duration) = candidates[k].duration
            /\ result[i].title = candidates[k].title

\* C12 as stated: when exactly one source fails, the request returns a
\* ranking of the other source's candidates alone.
C12_OneSourceSuffices ==
    \A i \in 1..Len(hist) :
        (OnlyVectorFailed(hist[i]) \/ OnlyContentFailed(hist[i])) =>
            /\ hist[i].path = "computed"
            /\ RankedFromAlone(hist[i].result, SurvivingCandidates(hist[i]),
                               hist[i].max_results)

\* Every candidate carries every key that the response requires.
WellFormed(candidates) ==
    \A k \in 1..Len(candidates) : NoneKeys(candidates[k]) = {}

\* C12 amended: this holds when every candidate of the other source
\* carries every key the response requires (id, title, description, topics,
\* difficulty, duration, format, rating).  The request returns the fallback
\* list only when a candidate lacks one of them, and that list is empty when
\* the database does not answer.
C12_OneSourceSufficesWhenWellFormed ==
    \A i \in 1..Len(hist) :
        (OnlyVectorFailed(hist[i]) \/ OnlyContentFailed(hist[i])) =>
            /\ WellFormed(SurvivingCandidates(hist[i])) =>
                /\ hist[i].path = "computed"
                /\ RankedFromAlone(hist[i].result, SurvivingCandidates(hist[i]),
                                   hist[i].max_results)
            /\ hist[i].path = "computed" =>
                RankedFromAlone(hist[i].result, SurvivingCandidates(hist[i]),
                                hist[i].max_results)
            /\ hist[i].path = "fallback" =>
                /\ ~WellFormed(SurvivingCandidates(hist[i]))
                /\ DescendingByRating(hist[i].result)
                /\ FromCatalog(hist[i].result)
                /\ ~hist[i].dbUp => hist[i].result = <<>>

\* C12 witness: one call served from the content candidates alone and one
\* served from two vector candidates alone while the database was down.
C12_Witness ==
    \E i, j \in 1..Len(hist) :
        /\ OnlyVectorFailed(hist[i])
        /\ hist[i].path = "computed"
        /\ Len(hist[i].result) = 2
        /\ OnlyContentFailed(hist[j])
        /\ hist[j].path = "computed"
        /\ Len(hist[j].result) = 2
        /\ IdsOf(hist[j].result) = IdsOf(hist[j].vector)

\* C12, the incomplete candidate: with the content query failing, a vector
\* object without its description made the request return the fallback
\* list, here empty.
C12_IncompleteFallsBack ==
    \E i \in 1..Len(hist) :
        /\ OnlyContentFailed(hist[i])
        /\ Len(hist[i].vector) = 1
        /\ NoneKeys(hist[i].vector[1]) = {"description"}
        /\ hist[i].path = "fallback"
        /\ hist[i].result = <<>>

\* C12, the object without topics: its candidate holds the empty list, so
\* with the content query failing it is scored and returned.
C12_TopiclessReturned ==
    \E i \in 1..Len(hist) :
        /\ OnlyContentFailed(hist[i])
        /\ Len(hist[i].vector) = 1
        /\ hist[i].vector[1].topics = <<>>
        /\ NoneKeys(hist[i].vector[1]) = {}
        /\ hist[i].path = "computed"
        /\ IdsOfCourses(hist[i].result) = <<"c3">>

\* C12, null topics: the candidate holds None under topics and the request
\* returns the fallback list.
C12_NullTopicsFallsBack ==
    \E i \in 1..Len(hist) :
        /\ OnlyContentFailed(hist[i])
        /\ Len(hist[i].vector) = 1
        /\ NoneKeys(hist[i].vector[1]) = {"topics"}
        /\ hist[i].path = "fallback"
        /\ hist[i].result = <<>>

\* C12, the incomplete candidate behind the slice: ranked third of three
\* with max_results 2, it is not built and the ranking is returned.
C12_IncompleteNotReturned ==
    \E i \in 1..Len(hist) :
        /\ OnlyContentFailed(hist[i])
        /\ Len(hist[i].vector) = 3
        /\ ~WellFormed(hist[i].vector)
        /\ hist[i].path = "computed"
        /\ IdsOfCourses(hist[i].result) = <<"c2", "c1">>

-----------------------------------------------------------------------------
(* The Fallback Supplier: properties, under SpecFallback *)

\* similarity_score = rating / 5.0, in thousandths (rating in tenths).
SimilarityIsRatingOverFive(list) ==
    \A k \in 1..Len(list) : list[k].similarity_score = 20 * list[k].rating

\* C14: the Fallback Supplier never raises; for every limit it returns at
\* most limit courses, all from the catalog, in descending rating order,
\* each with similarity_score = rating/5, and the empty list when the
\* catalog lookup fails.
C14_FallbackContract ==
    \A i \in 1..Len(hist) :
        hist[i].path = "fallback" =>
            /\ hist[i].max_results # NoneLimit =>
                    Len(hist[i].result) <= hist[i].max_results
            /\ (hist[i].dbUp /\ hist[i].max_results # NoneLimit) =>
                    Len(hist[i].result) = Min(hist[i].max_results, Len(Catalog))
            /\ FromCatalog(hist[i].result)
            /\ DistinctIds(hist[i].result)
            /\ DescendingByRating(hist[i].result)
            /\ SimilarityIsRatingOverFive(hist[i].result)
            /\ (~hist[i].dbUp \/ hist[i].max_results = NoneLimit) =>
                    hist[i].result = <<>>

\* C14 witness: a fallback with limit 1 that returned the top-rated course
\* alone, after a fallback that found the database down.
C14_Witness ==
    \E i, j \in 1..Len(hist) :
        /\ i < j
        /\ hist[i].path = "fallback"
        /\ ~hist[i].dbUp
        /\ hist[i].result = <<>>
        /\ hist[j].path = "fallback"
        /\ hist[j].max_results = 1
        /\ Len(hist[j].result) = 1
        /\ hist[j].result[1].id = "c2"
        /\ hist[j].result[1].similarity_score = 940

\* C14, the limit None: the lookup fails although the database answers,
\* and the fallback list is empty.
C14_NoneLimitEmpty ==
    \E i \in 1..Len(hist) :
        /\ hist[i].path = "fallback"
        /\ hist[i].max_results = NoneLimit
        /\ hist[i].dbUp
        /\ hist[i].result = <<>>

\* The limit None on a surviving compute path: every scored course is
\* returned, and the call is stored under a key of its own.
NoneLimitReturnsAll ==
    \E i \in 1..Len(hist) :
        /\ hist[i].path = "computed"
        /\ hist[i].max_results = NoneLimit
        /\ Len(hist[i].result) > 2
        /\ cache_key(hist[i].user_id, hist[i].query, NoneLimit) \in DOMAIN cache

-----------------------------------------------------------------------------
(* Query Synthesizer: the search string that _get_vector_recommendations
   builds before it calls the Vector Index (lines 83-139). *)

GenericQuery == "programming software development technology"

TruthyText(o) == ~IsNone(o) /\ Get(o) # ""

\* f"courses about {' '.join(prefs['topics'])}", when there are topics.
TopicsPhrase(prefs) ==
    IF prefs.topics # <<>>
    THEN << "courses about " \o Join(prefs.topics, " ") >>
    ELSE <<>>

\* style_text of lines 112-118.
StylePhrase(prefs) ==
    LET with_style == IF TruthyText(prefs.learning_style)
                      THEN Get(prefs.learning_style) \o " learning" ELSE ""
        style_text == IF TruthyText(prefs.difficulty)
                      THEN with_style \o " " \o Get(prefs.difficulty) \o " level"
                      ELSE with_style
    IN  IF Strip(style_text) # "" THEN << Strip(style_text) >> ELSE <<>>

\* [f for f in recent_feedback if f.get('rating', 0) >= 4][:3]
PositiveFeedback(recent_feedback) ==
    LET positive == SelectSeq(recent_feedback, LAMBDA f : f.rating >= 4)
    IN  SubSeq(positive, 1, Min(3, Len(positive)))

\* f"{course[0]} {' '.join(topics)}" for every looked-up course that exists.
RECURSIVE FeedbackPhrases(_)
FeedbackPhrases(positive_feedback) ==
    IF positive_feedback = <<>> THEN <<>>
    ELSE
        LET feedback == Head(positive_feedback)
            course == CourseById(feedback.course_id)
            phrase == IF feedback.course_id # "" /\ ~IsNone(course)
                      THEN << Join(Get(course).title, " ") \o " "
                                \o Join(Get(course).topics, " ") >>
                      ELSE <<>>
        IN  phrase \o FeedbackPhrases(Tail(positive_feedback))

\* Mutant of the combination: every entry is joined.
combined_query_of_all(search_queries) ==
    IF search_queries # <<>> THEN Join(search_queries, " ") ELSE GenericQuery

\* ' '.join(search_queries[:3]) if search_queries else the generic phrase.
combined_query(search_queries) ==
    IF search_queries # <<>>
    THEN Join(SubSeq(search_queries, 1, Min(3, Len(search_queries))), " ")
    ELSE GenericQuery

\* Lines 83-139.  raised: execute_query failed on a lookup, the handler of
\* the function returns [] and nothing is passed to the Vector Index.
build_search_query(query, user_context, dbUp) ==
    LET explicit == IF TruthyText(query) THEN << Get(query) >> ELSE <<>>
        exclude_topics == IF TruthyText(query) THEN PatternKeywords(Get(query))
                          ELSE <<>>
        prefs == IF IsNone(user_context) THEN <<>>
                 ELSE TopicsPhrase(Get(user_context).preferences)
                        \o StylePhrase(Get(user_context).preferences)
        positive_feedback == IF IsNone(user_context) THEN <<>>
                             ELSE PositiveFeedback(Get(user_context).recent_feedback)
        looks_up == \E i \in 1..Len(positive_feedback) :
                        positive_feedback[i].course_id # ""
        search_queries == explicit \o prefs \o FeedbackPhrases(positive_feedback)
    IN  IF looks_up /\ ~dbUp
        THEN [raised |-> TRUE, search_queries |-> <<>>, combined_query |-> "",
              exclude_topics |-> <<>>]
        ELSE [raised |-> FALSE, search_queries |-> search_queries,
              combined_query |-> combined_query(search_queries),
              exclude_topics |-> exclude_topics]

\* Contexts that exercise each component on its own.
ctxBare ==
    [preferences |-> [topics |-> <<>>, difficulty |-> None, learning_style |-> None],
     recent_feedback |-> <<>>]

ctxLevelOnly ==
    [preferences |-> [topics |-> <<>>, difficulty |-> Some("advanced"),
                      learning_style |-> None],
     recent_feedback |-> << [course_id |-> "c3", rating |-> 3] >>]

ctxBlankStyle ==
    [preferences |-> [topics |-> <<"web">>, difficulty |-> Some(""),
                      learning_style |-> Some("")],
     recent_feedback |-> << [course_id |-> "c9", rating |-> 5],
                            [course_id |-> "c3", rating |-> 4] >>]

ctxManyLikes ==
    [preferences |-> [topics |-> <<>>, difficulty |-> None, learning_style |-> None],
     recent_feedback |-> << [course_id |-> "c2", rating |-> 5],
                            [course_id |-> "c1", rating |-> 1],
                            [course_id |-> "c3", rating |-> 4],
                            [course_id |-> "c1", rating |-> 5],
                            [course_id |-> "c2", rating |-> 4] >>]

QueryContexts ==
    OptionalContexts
    \cup {Some(ctxBare), Some(ctxLevelOnly), Some(ctxBlankStyle), Some(ctxManyLikes)}

SynthesisQueries ==
    {None, Some(""), Some("python"), Some(ScenarioQuery), Some("no maths, please")}

InitQuery ==
    /\ EngineIdle
    /\ FuseIdle
    /\ ScoreIdle
    /\ ExplainIdle
    /\ StoreIdle
    /\ FlightIdle
    /\ uOp = "build_search_query"
    /\ uIn \in [query : SynthesisQueries, user_context : QueryContexts, dbUp : BOOLEAN]
    /\ uOut = None

BuildQuery ==
    /\ uOp = "build_search_query"
    /\ IsNone(uOut)
    /\ uOut' = Some(build_search_query(uIn.query, uIn.user_context, uIn.dbUp))
    /\ UNCHANGED <<uOp, uIn>>
    /\ UNCHANGED engineVars
    /\ UNCHANGED fuseVars
    /\ UNCHANGED scoreVars
    /\ UNCHANGED explainVars
    /\ UNCHANGED storeVars
    /\ UNCHANGED flightVars

NextQuery == BuildQuery

SpecQuery == InitQuery /\ [][NextQuery]_vars

\* The components of the specification, in order, for a query and a context.
RECURSIVE LikedCourses(_)
LikedCourses(recent_feedback) ==
    IF recent_feedback = <<>> THEN <<>>
    ELSE (IF Head(recent_feedback).rating >= 4 THEN << Head(recent_feedback) >> ELSE <<>>)
         \o LikedCourses(Tail(recent_feedback))

ExplicitComponent(query) ==
    IF IsNone(query) \/ Len(Get(query)) = 0 THEN <<>> ELSE << Get(query) >>

TopicsComponent(user_context) ==
    IF IsNone(user_context) \/ Len(Get(user_context).preferences.topics) = 0 THEN <<>>
    ELSE << "courses about " \o Join(Get(user_context).preferences.topics, " ") >>

StyleComponent(user_context) ==
    IF IsNone(user_context) THEN <<>>
    ELSE
        LET style == Get(user_context).preferences.learning_style
            level == Get(user_context).preferences.difficulty
            has_style == style \notin {None, Some("")}
            has_level == level \notin {None, Some("")}
        IN  IF has_style /\ has_level
            THEN << Get(style) \o " learning " \o Get(level) \o " level" >>
            ELSE IF has_style THEN << Get(style) \o " learning" >>
            ELSE IF has_level THEN << Get(level) \o " level" >>
            ELSE <<>>

FeedbackComponents(user_context) ==
    IF IsNone(user_context) THEN <<>>
    ELSE
        LET liked == LikedCourses(Get(user_context).recent_feedback)
            recent == [i \in 1..Min(3, Len(liked)) |-> liked[i]]
            known == SelectSeq(recent, LAMBDA f : f.course_id \in CourseIds)
        IN  [i \in 1..Len(known) |->
                LET row == Get(CourseById(known[i].course_id))
                IN  Join(row.title \o row.topics, " ")]

Components(query, user_context) ==
    ExplicitComponent(query) \o TopicsComponent(user_context)
        \o StyleComponent(user_context) \o FeedbackComponents(user_context)

\* C17: whenever a search string is passed to the Vector Index, it is the
\* first 3 of the ordered components (explicit query, topics phrase, style
\* and difficulty phrase, phrases of up to 3 recent feedback items rated 4
\* or higher) joined by single spaces, the generic phrase when there is no
\* component, and never empty.
C17_SearchStringComposition ==
    (uOp = "build_search_query" /\ ~IsNone(uOut) /\ ~Get(uOut).raised) =>
        LET out == Get(uOut)
            components == Components(uIn.query, uIn.user_context)
            n == Len(components)
        IN  /\ out.search_queries = components
            /\ out.combined_query # ""
            /\ n = 0 => out.combined_query = GenericQuery
            /\ n = 1 => out.combined_query = components[1]
            /\ n = 2 => out.combined_query = components[1] \o " " \o components[2]
            /\ n >= 3 => out.combined_query =
                    components[1] \o " " \o components[2] \o " " \o components[3]

\* C17 witness: a search string cut to 3 of more than 3 components, one of
\* them the phrase of a liked course.
C17_Witness ==
    /\ uOp = "build_search_query"
    /\ ~IsNone(uOut)
    /\ ~Get(uOut).raised
    /\ Len(Get(uOut).search_queries) > 3
    /\ Get(uOut).search_queries[4] = "python basics Python fundamentals"
    /\ Get(uOut).combined_query =
         "python courses about python hands-on learning advanced level"

\* C17 witness of the generic phrase: no component exists.
C17_GenericWitness ==
    /\ uOp = "build_search_query"
    /\ ~IsNone(uOut)
    /\ Get(uOut).search_queries = <<>>
    /\ Get(uOut).combined_query = GenericQuery

-----------------------------------------------------------------------------
(* Topic affinity runs: _calculate_topic_score is applied to a list of
   candidate topics and a context, then to the same list and a second
   context. *)

MaxCourseTopics == 2

MaxPreferred == 1

MaxPositive == 3

TopicLabels == {"Python", "web"}

TopicInputs ==
    [course_topics : SeqsUpTo(TopicLabels, MaxCourseTopics),
     preferred_topics : SeqsUpTo(TopicLabels, MaxPreferred),
     positive_topics : SeqsUpTo(TopicLabels, MaxPositive)]

TopicScoreOf(in) ==
    calculate_topic_score(in.course_topics, in.preferred_topics, in.positive_topics)

InitTopic ==
    /\ EngineIdle
    /\ FuseIdle
    /\ ScoreIdle
    /\ ExplainIdle
    /\ StoreIdle
    /\ FlightIdle
    /\ uOp = "calculate_topic_score"
    /\ uIn \in TopicInputs
    /\ uOut = None

\* The first call.
TopicScore ==
    /\ uOp = "calculate_topic_score"
    /\ IsNone(uOut)
    /\ uOut' = Some([score |-> TopicScoreOf(uIn), before |-> None])
    /\ UNCHANGED <<uOp, uIn>>
    /\ UNCHANGED engineVars
    /\ UNCHANGED fuseVars
    /\ UNCHANGED scoreVars
    /\ UNCHANGED explainVars
    /\ UNCHANGED storeVars
    /\ UNCHANGED flightVars

\* The second call: same candidate topics, another context.
TopicScoreAgain ==
    /\ uOp = "calculate_topic_score"
    /\ ~IsNone(uOut)
    /\ IsNone(Get(uOut).before)
    /\ \E next \in TopicInputs :
        /\ next.course_topics = uIn.course_topics
        /\ uIn' = next
        /\ uOut' = Some([score |-> TopicScoreOf(next),
                         before |-> Some([preferred_topics |-> uIn.preferred_topics,
                                          positive_topics |-> uIn.positive_topics,
                                          score |-> Get(uOut).score])])
    /\ UNCHANGED uOp
    /\ UNCHANGED engineVars
    /\ UNCHANGED fuseVars
    /\ UNCHANGED scoreVars
    /\ UNCHANGED explainVars
    /\ UNCHANGED storeVars
    /\ UNCHANGED flightVars

NextTopic == TopicScore \/ TopicScoreAgain

SpecTopic == InitTopic /\ [][NextTopic]_vars

\* The candidate topics that match a preferred topic, and those that match
\* a topic of the positive history, case-insensitively.
MatchesPreferred(course_topics, preferred_topics) ==
    {i \in 1..Len(course_topics) :
        \E j \in 1..Len(preferred_topics) :
            Lower(preferred_topics[j]) = Lower(course_topics[i])}

MatchesPositive(course_topics, positive_topics) ==
    {i \in 1..Len(course_topics) :
        \E j \in 1..Len(positive_topics) :
            Lower(positive_topics[j]) = Lower(course_topics[i])}

TopicScored == uOp = "calculate_topic_score" /\ ~IsNone(uOut)

\* C18: topic_affinity is in [0,1], and for fixed candidate topics it does
\* not decrease from one context to another in which the candidate topics
\* that match a preferred topic and those that match a history topic are
\* kept and at least one more matches.
C18_TopicAffinityMonotone ==
    TopicScored =>
        /\ FloatLeq(FloatZero, Get(uOut).score)
        /\ FloatLeq(Get(uOut).score, Float_1_0)
        /\ ~IsNone(Get(uOut).before) =>
            LET before == Get(Get(uOut).before) IN
            LET preferred_before ==
                    MatchesPreferred(uIn.course_topics, before.preferred_topics)
                preferred_after ==
                    MatchesPreferred(uIn.course_topics, uIn.preferred_topics)
                positive_before ==
                    MatchesPositive(uIn.course_topics, before.positive_topics)
                positive_after ==
                    MatchesPositive(uIn.course_topics, uIn.positive_topics)
            IN  ( /\ preferred_before \subseteq preferred_after
                  /\ positive_before \subseteq positive_after
                  /\ <<preferred_before, positive_before>>
                        # <<preferred_after, positive_after>> )
                => FloatLeq(before.score, Get(uOut).score)

\* Number of entries of list equal to label t, case-insensitively.
Occurrences(list, t) ==
    Cardinality({j \in 1..Len(list) : Lower(list[j]) = Lower(t)})

\* Every topic occurs in the second list at least as often as in the first.
Extends(first, second) ==
    \A j \in 1..Len(first) : Occurrences(first, first[j]) <= Occurrences(second, first[j])

\* C18 amended: topic_affinity is in [0,1], and for fixed candidate topics
\* it does not decrease when topics are added to the preferred topics or to
\* the topics of the positive history and none is taken away.
C18_TopicAffinityMonotoneInAdditions ==
    TopicScored =>
        /\ FloatLeq(FloatZero, Get(uOut).score)
        /\ FloatLeq(Get(uOut).score, Float_1_0)
        /\ ~IsNone(Get(uOut).before) =>
            LET before == Get(Get(uOut).before) IN
            ( /\ Extends(before.preferred_topics, uIn.preferred_topics)
              /\ Extends(before.positive_topics, uIn.positive_topics) )
            => FloatLeq(before.score, Get(uOut).score)

\* C18 witness: a history topic was added, one more candidate topic
\* matches, and the score rose.
C18_Witness ==
    /\ TopicScored
    /\ ~IsNone(Get(uOut).before)
    /\ Extends(Get(Get(uOut).before).preferred_topics, uIn.preferred_topics)
    /\ Extends(Get(Get(uOut).before).positive_topics, uIn.positive_topics)
    /\ MatchesPositive(uIn.course_topics, Get(Get(uOut).before).positive_topics)
         # MatchesPositive(uIn.course_topics, uIn.positive_topics)
    /\ FloatLess(FloatZero, Get(Get(uOut).before).score)
    /\ FloatLess(Get(Get(uOut).before).score, Get(uOut).score)

-----------------------------------------------------------------------------
(* Score range runs: one candidate whose rating, similarity and topics span
   their ranges is scored under each context. *)

RangeRatings == {0, 25, 50}

RangeSimilarities == {0, 50, 100}

RangeTopics ==
    { <<>>, <<"Python">>, <<"Python", "web">>, <<"fundamentals", "statistics">> }

\* A context in which every sub-score of a candidate can reach 1.0.
ctxKeen ==
    [preferences |-> [topics |-> <<"python">>, difficulty |-> Some("beginner"),
                      learning_style |-> Some("interactive")],
     recent_feedback |-> << [course_id |-> "c3", rating |-> 5],
                            [course_id |-> "c1", rating |-> 4],
                            [course_id |-> "c3", rating |-> 4],
                            [course_id |-> "c3", rating |-> 5] >>]

\* A content candidate carries similarity 0.
RangeCandidates ==
    { [WithSource(VectorCandidate(Catalog[1], sim, TRUE), "vector")
          EXCEPT !.rating = Some(r), !.topics = t] :
        r \in RangeRatings, sim \in RangeSimilarities, t \in RangeTopics }
    \cup
    { [WithSource(ContentCandidate(Catalog[1]), "content")
          EXCEPT !.rating = Some(r), !.topics = t] :
        r \in RangeRatings, t \in RangeTopics }

InitRange ==
    /\ EngineIdle
    /\ FuseIdle
    /\ ExplainIdle
    /\ UnitIdle
    /\ StoreIdle
    /\ FlightIdle
    /\ sIn \in {<<c>> : c \in RangeCandidates}
    /\ sCtx \in OptionalContexts \cup {Some(ctxKeen)}
    /\ sDbUp \in BOOLEAN
    /\ sScored = [raised |-> FALSE, path |-> "none", value |-> <<>>]
    /\ sRanked = <<>>
    /\ sPhase = "init"

SpecRange == InitRange /\ [][NextScore]_vars

ScoresProduced == IF sPhase = "init" THEN {} ELSE {e.score : e \in Range(sScored.value)}

\* C19: every score the Scorer produces is in [0, 1.1], with or without a
\* context and whether or not the degradation to rating/5 was taken.
C19_ScoreRange ==
    \A score \in ScoresProduced :
        FloatLeq(FloatZero, score) /\ FloatLeq(score, FloatOf(11, 10))

\* C19 amended: every score produced with a context is in [0, 1.1], on the
\* composite path and on the degraded one; without a context it is in
\* [0, 1.5].
C19_ScoreRangeByContext ==
    \A score \in ScoresProduced :
        /\ FloatLeq(FloatZero, score)
        /\ IF IsNone(sCtx) THEN FloatLeq(score, FloatOf(15, 10))
           ELSE FloatLeq(score, FloatOf(11, 10))

\* C19 witness: a composite score above 1.0 and within 1.1.
C19_Witness ==
    /\ sPhase = "scored"
    /\ sScored.path = "composite"
    /\ \E score \in ScoresProduced : FloatLess(Float_1_0, score)

\* C19 witness of the degraded path with a context.
C19_DegradedWitness ==
    /\ sPhase = "scored"
    /\ sScored.path = "rating"
    /\ ScoresProduced = {Float_1_0}

-----------------------------------------------------------------------------
(* Scenario runs: the user of ctxTopics (topics python and data science,
   difficulty beginner, no query), the course of the scenario and one or
   two alternative candidates, scored and sorted. *)

ScenarioCourse ==
    [WithSource(VectorCandidate(Catalog[1], 60, TRUE), "vector")
        EXCEPT !.topics = <<"python", "fundamentals">>, !.difficulty = "beginner"]

AlternativeRatings == {44, 47}

AlternativeSimilarities == {59, 80}

AlternativeTopics ==
    { <<"python", "data science">>, <<"python", "fundamentals">>, <<"web">> }

AlternativeDifficulties == {"beginner", "advanced"}

\* Alternative candidates built on catalog row k.
Alternatives(k) ==
    { [WithSource(VectorCandidate(Catalog[k], sim, TRUE), "vector")
          EXCEPT !.rating = Some(r), !.topics = t, !.difficulty = d] :
        r \in AlternativeRatings, sim \in AlternativeSimilarities,
        t \in AlternativeTopics, d \in AlternativeDifficulties }
    \cup
    { [WithSource(ContentCandidate(Catalog[k]), "content")
          EXCEPT !.rating = Some(r), !.topics = t, !.difficulty = d] :
        r \in AlternativeRatings, t \in AlternativeTopics,
        d \in AlternativeDifficulties }

ScenarioLists ==
    {<<ScenarioCourse, a>> : a \in Alternatives(2)}
    \cup {<<a, ScenarioCourse>> : a \in Alternatives(2)}
    \cup {<<a, b, ScenarioCourse>> : a \in Alternatives(2), b \in Alternatives(3)}
    \cup {<<a, ScenarioCourse, b>> : a \in Alternatives(2), b \in Alternatives(3)}

InitScenario ==
    /\ EngineIdle
    /\ FuseIdle
    /\ ExplainIdle
    /\ UnitIdle
    /\ StoreIdle
    /\ FlightIdle
    /\ sIn \in ScenarioLists
    /\ sCtx = Some(ctxTopics)
    /\ sDbUp \in BOOLEAN
    /\ sScored = [raised |-> FALSE, path |-> "none", value |-> <<>>]
    /\ sRanked = <<>>
    /\ sPhase = "init"

SpecScenario == InitScenario /\ [][NextScore]_vars

\* topic_affinity of a candidate for the context of the run.
TopicAffinity(course) ==
    calculate_topic_score(course.topics, Get(sCtx).preferences.topics,
                          PositiveTopicsOf(Get(sCtx).recent_feedback))

LowerRatedLowerSimilarity(course) ==
    /\ Get(course.rating) < Get(ScenarioCourse.rating)
    /\ course.vector_similarity < ScenarioCourse.vector_similarity

\* The scenario course has topic_affinity 0.5 and a score in [0.55, 0.75].
ScenarioScored ==
    sPhase # "init" =>
        /\ TopicAffinity(ScenarioCourse) = Float_0_5
        /\ \A k \in 1..Len(sScored.value) :
            sScored.value[k].course = ScenarioCourse =>
                /\ FloatLeq(FloatOf(55, 100), sScored.value[k].score)
                /\ FloatLeq(sScored.value[k].score, FloatOf(75, 100))

\* C20: in the scenario the course gets topic_affinity 0.5 and a score in
\* [0.55, 0.75], and it is ranked before every alternative of lower rating
\* and lower similarity.
C20_ScenarioRanking ==
    /\ ScenarioScored
    /\ sPhase = "ranked" =>
        \A i, j \in 1..Len(sRanked) :
            ( /\ sRanked[i].course = ScenarioCourse
              /\ LowerRatedLowerSimilarity(sRanked[j].course) )
            => i < j

\* No other component of the score is higher for the alternative than for
\* the scenario course.
NoOtherComponentHigher(course) ==
    LET prefs == Get(sCtx).preferences IN
    /\ FloatLeq(TopicAffinity(course), TopicAffinity(ScenarioCourse))
    /\ FloatLeq(calculate_difficulty_score(course.difficulty, prefs.difficulty),
                calculate_difficulty_score(ScenarioCourse.difficulty, prefs.difficulty))
    /\ FloatLeq(calculate_learning_style_score(course.format, prefs.learning_style),
                calculate_learning_style_score(ScenarioCourse.format,
                                               prefs.learning_style))
    /\ FloatLeq(calculate_diversity_score(course.topics, prefs.topics),
                calculate_diversity_score(ScenarioCourse.topics, prefs.topics))

\* C20 amended: in the scenario the course gets topic_affinity 0.5 and a
\* score in [0.55, 0.75], and it is ranked before every alternative of lower
\* rating and lower similarity whose topic affinity, difficulty fit, style
\* fit and diversity bonus are not higher than its own.
C20_ScenarioRankingAmongWeaker ==
    /\ ScenarioScored
    /\ sPhase = "ranked" =>
        \A i, j \in 1..Len(sRanked) :
            ( /\ sRanked[i].course = ScenarioCourse
              /\ LowerRatedLowerSimilarity(sRanked[j].course)
              /\ NoOtherComponentHigher(sRanked[j].course) )
            => i < j

\* C20 witness: the sort moved the scenario course, with score 0.7275, in
\* front of a weaker alternative that preceded it in the fused list.
C20_Witness ==
    /\ sPhase = "ranked"
    /\ sIn[1] # ScenarioCourse
    /\ LowerRatedLowerSimilarity(sIn[1])
    /\ NoOtherComponentHigher(sIn[1])
    /\ sRanked[1].course = ScenarioCourse
    /\ 10000 * InScoreUnits(sRanked[1].score) = 7275 * ScoreScale

-----------------------------------------------------------------------------
(* User State Store: the feedback routes and the preference record they
   maintain (routers/feedback.py).  A user_preferences row is held under its
   user id; a user_feedback row keeps the columns the routes read back. *)

MaxFeedback == 2

Users == {1, 2}

NoRows == [u \in Users |-> None]

\* rating >= 4: positive feedback.
IsPositiveFromThree(rating) == rating >= 3

IsPositive(rating) == rating >= 4

\* Mutant of the topic loop: a topic is appended even when it is present.
RECURSIVE AppendAll(_, _)
AppendAll(current_topics, course_topics) ==
    IF course_topics = <<>> THEN current_topics
    ELSE AppendAll(Append(current_topics, Head(course_topics)), Tail(course_topics))

\* for topic in course_topics: if topic not in current_topics: append.
RECURSIVE AppendNew(_, _)
AppendNew(current_topics, course_topics) ==
    IF course_topics = <<>> THEN current_topics
    ELSE AppendNew(IF Head(course_topics) \in Range(current_topics)
                   THEN current_topics
                   ELSE Append(current_topics, Head(course_topics)),
                   Tail(course_topics))

\* update_user_preferences_from_feedback on the table.  prefsUp: every
\* query of the function succeeds.  When one raises, the except of lines
\* 293-294 logs it and returns: the write is the last statement, so the
\* table is as before and the caller does not learn of the failure.
update_user_preferences_from_feedback(table, user_id, feedback, prefsUp) ==
    LET course == CourseById(feedback.course_id)
        current_prefs == table[user_id]
    IN  IF ~prefsUp THEN table
        ELSE IF IsNone(course) \/ ~IsPositive(feedback.rating) THEN table
        ELSE
            LET current_topics == IF ~IsNone(current_prefs)
                                  THEN Get(current_prefs).preferred_topics ELSE <<>>
                new_topics == AppendNew(current_topics, Get(course).topics)
            IN  IF ~IsNone(current_prefs)
                THEN [table EXCEPT ![user_id] =
                        Some([Get(current_prefs) EXCEPT
                                !.preferred_topics = new_topics,
                                !.difficulty_level = feedback.difficulty_preference,
                                !.learning_style = feedback.learning_style])]
                ELSE [table EXCEPT ![user_id] =
                        Some([preferred_topics |-> new_topics,
                              difficulty_level |-> feedback.difficulty_preference,
                              learning_style |-> feedback.learning_style,
                              time_commitment |-> None])]

\* POST /api/feedback/ by current_user: 500 when the INSERT fails (dbUp
\* is FALSE).  The new row gets the id after seq, the largest id given so
\* far, and as created_at the second of the INSERT (DEFAULT
\* CURRENT_TIMESTAMP, database.py 43).  After the INSERT the preference
\* update runs (line 46); whether its queries succeed (prefsUp) or not, the
\* answer is 200 with the stored row.
submit_feedback(table, rows, seq, current_user, feedback, dbUp, created_at, prefsUp) ==
    IF ~dbUp THEN [status |-> 500, prefTable |-> table, fbTable |-> rows, fbSeq |-> seq]
    ELSE [status |-> 200,
          prefTable |-> update_user_preferences_from_feedback(table, current_user,
                                                              feedback, prefsUp),
          fbTable |-> Append(rows, [id |-> seq + 1, user_id |-> current_user,
                                    course_id |-> feedback.course_id,
                                    rating |-> feedback.rating,
                                    created_at |-> created_at]),
          fbSeq |-> seq + 1]

\* PUT /api/feedback/{feedback_id}: the row keeps its course_id and its
\* created_at, the preference update reads the course_id of the body and
\* its failure (prefsUp is FALSE) is swallowed as in submit_feedback.
update_feedback(table, rows, current_user, feedback_id, feedback, dbUp, prefsUp) ==
    IF ~dbUp THEN [status |-> 500, prefTable |-> table, fbTable |-> rows]
    ELSE IF ~\E k \in 1..Len(rows) :
                rows[k].id = feedback_id /\ rows[k].user_id = current_user
    THEN [status |-> 404, prefTable |-> table, fbTable |-> rows]
    ELSE [status |-> 200,
          prefTable |-> update_user_preferences_from_feedback(table, current_user,
                                                              feedback, prefsUp),
          fbTable |-> [k \in 1..Len(rows) |->
                          IF rows[k].id = feedback_id
                          THEN [rows[k] EXCEPT !.rating = feedback.rating]
                          ELSE rows[k]]]

\* DELETE /api/feedback/{feedback_id}: 404 unless the row is one of
\* current_user, 500 when a query fails; the preference table is not read.
delete_feedback(rows, current_user, feedback_id, dbUp) ==
    IF ~dbUp THEN [status |-> 500, fbTable |-> rows]
    ELSE IF ~\E k \in 1..Len(rows) :
                rows[k].id = feedback_id /\ rows[k].user_id = current_user
    THEN [status |-> 404, fbTable |-> rows]
    ELSE [status |-> 200, fbTable |-> SelectSeq(rows, LAMBDA r : r.id # feedback_id)]

\* PUT /api/feedback/preferences: its first SELECT names the column
\* excluded_topics, which the user_preferences table of init_db
\* (database.py 58-67) does not have, so execute_query raises and the
\* handler answers 500 without writing; GET /api/feedback/preferences fails
\* on the same column.
update_user_preferences(table, current_user, preferences) ==
    [status |-> 500, prefTable |-> table]

\* A user_preferences row as an INSERT of the five columns of the table
\* stores it (sample_data.py 226-231).
StoredRecord ==
    [preferred_topics |-> <<"web", "python">>, difficulty_level |-> Some("beginner"),
     learning_style |-> Some("visual"), time_commitment |-> Some("5 hours")]

\* Bodies of PUT /api/feedback/preferences (UserPreferencesUpdate).
PreferenceBodies ==
    { [preferred_topics |-> Some(<<"web">>), difficulty_level |-> Some("advanced"),
       learning_style |-> None, time_commitment |-> None,
       excluded_topics |-> Some(<<"statistics">>)] }

FeedbackBodies ==
    [course_id : {"c1", "c3", "c9"}, rating : {3, 5},
     learning_style : {None}, difficulty_preference : {None}]
    \cup
    [course_id : {"c1", "c3", "c9"}, rating : {3, 5},
     learning_style : {Some("hands-on")}, difficulty_preference : {Some("advanced")}]

InitFeedback ==
    /\ EngineIdle
    /\ FuseIdle
    /\ ScoreIdle
    /\ ExplainIdle
    /\ FlightIdle
    /\ uOp = "none"
    /\ uIn = <<>>
    /\ uOut = None
    /\ prefTable \in {NoRows, [NoRows EXCEPT ![1] = Some(StoredRecord)]}
    /\ fbTable = <<>>
    /\ fbSeq = 0
    /\ ixTable = <<>>

\* Number of feedback calls made so far.
FeedbackCalls == IF IsNone(uOut) THEN 0 ELSE Get(uOut).count

SubmitFeedback ==
    /\ FeedbackCalls < MaxFeedback
    /\ \E current_user \in Users, feedback \in FeedbackBodies, dbUp \in BOOLEAN,
          prefsUp \in BOOLEAN :
        LET done == submit_feedback(prefTable, fbTable, fbSeq, current_user,
                                    feedback, dbUp, now, prefsUp)
        IN  /\ prefTable' = done.prefTable
            /\ fbTable' = done.fbTable
            /\ fbSeq' = done.fbSeq
            /\ UNCHANGED ixTable
            /\ uOp' = "submit_feedback"
            /\ uIn' = [current_user |-> current_user, feedback |-> feedback,
                       prefsUp |-> prefsUp]
            /\ uOut' = Some([status |-> done.status, before |-> prefTable,
                             count |-> FeedbackCalls + 1])
    /\ UNCHANGED engineVars
    /\ UNCHANGED fuseVars
    /\ UNCHANGED scoreVars
    /\ UNCHANGED explainVars
    /\ UNCHANGED flightVars

UpdateFeedback ==
    /\ FeedbackCalls < MaxFeedback
    /\ \E current_user \in Users, feedback \in FeedbackBodies, dbUp \in BOOLEAN,
          prefsUp \in BOOLEAN, feedback_id \in 1..MaxFeedback :
        LET done == update_feedback(prefTable, fbTable, current_user, feedback_id,
                                    feedback, dbUp, prefsUp)
        IN  /\ prefTable' = done.prefTable
            /\ fbTable' = done.fbTable
            /\ UNCHANGED <<fbSeq, ixTable>>
            /\ uOp' = "update_feedback"
            /\ uIn' = [current_user |-> current_user, feedback |-> feedback,
                       prefsUp |-> prefsUp]
            /\ uOut' = Some([status |-> done.status, before |-> prefTable,
                             count |-> FeedbackCalls + 1])
    /\ UNCHANGED engineVars
    /\ UNCHANGED fuseVars
    /\ UNCHANGED scoreVars
    /\ UNCHANGED explainVars
    /\ UNCHANGED flightVars

DeleteFeedback ==
    /\ FeedbackCalls < MaxFeedback
    /\ \E current_user \in Users, dbUp \in BOOLEAN, feedback_id \in 1..MaxFeedback :
        LET done == delete_feedback(fbTable, current_user, feedback_id, dbUp)
        IN  /\ fbTable' = done.fbTable
            /\ UNCHANGED <<prefTable, fbSeq, ixTable>>
            /\ uOp' = "delete_feedback"
            /\ uIn' = [current_user |-> current_user, feedback_id |-> feedback_id]
            /\ uOut' = Some([status |-> done.status, before |-> prefTable,
                             count |-> FeedbackCalls + 1])
    /\ UNCHANGED engineVars
    /\ UNCHANGED fuseVars
    /\ UNCHANGED scoreVars
    /\ UNCHANGED explainVars
    /\ UNCHANGED flightVars

PutPreferences ==
    /\ FeedbackCalls < MaxFeedback
    /\ \E current_user \in Users, preferences \in PreferenceBodies :
        LET done == update_user_preferences(prefTable, current_user, preferences)
        IN  /\ prefTable' = done.prefTable
            /\ UNCHANGED <<fbTable, fbSeq, ixTable>>
            /\ uOp' = "update_user_preferences"
            /\ uIn' = [current_user |-> current_user, preferences |-> preferences]
            /\ uOut' = Some([status |-> done.status, before |-> prefTable,
                             count |-> FeedbackCalls + 1])
    /\ UNCHANGED engineVars
    /\ UNCHANGED fuseVars
    /\ UNCHANGED scoreVars
    /\ UNCHANGED explainVars
    /\ UNCHANGED flightVars

NextFeedback == SubmitFeedback \/ UpdateFeedback \/ DeleteFeedback \/ PutPreferences

SpecFeedback == InitFeedback /\ [][NextFeedback]_vars

\* The stored preferred topics of a user in a table, empty without a row.
StoredTopics(table, user_id) ==
    IF IsNone(table[user_id]) THEN <<>> ELSE Get(table[user_id]).preferred_topics

FeedbackAccepted(op) ==
    /\ uOp = op
    /\ ~IsNone(uOut)
    /\ Get(uOut).status = 200

\* The stored preferred topics of user are the list old, in its order,
\* followed by the topics of the list topics that old did not hold, each once.
UnionedInto(old, topics, table, user) ==
    LET new == StoredTopics(table, user) IN
    /\ ~IsNone(table[user])
    /\ Len(new) >= Len(old)
    /\ SubSeq(new, 1, Len(old)) = old
    /\ Range(new) = Range(old) \cup Range(topics)
    /\ \A i, j \in (Len(old) + 1)..Len(new) :
        /\ new[i] \notin Range(old)
        /\ new[i] = new[j] => i = j

\* A submission with rating 4 or higher for a catalog course that has
\* topics was answered 200.
PositiveFeedbackAccepted ==
    /\ FeedbackAccepted("submit_feedback")
    /\ uIn.feedback.rating >= 4
    /\ uIn.feedback.course_id \in CourseIds
    /\ Get(CourseById(uIn.feedback.course_id)).topics # <<>>

\* C21 as stated: after an accepted submission with rating 4 or higher for
\* a course that has topics, the stored preferred topics are the list
\* before the submission, in its order, followed by the topics of the
\* course that it did not hold, each once; also when there was no record
\* before.
C21_PositiveFeedbackUnionsTopics ==
    PositiveFeedbackAccepted =>
        UnionedInto(StoredTopics(Get(uOut).before, uIn.current_user),
                    Get(CourseById(uIn.feedback.course_id)).topics,
                    prefTable, uIn.current_user)

\* C21 amended: the union is stored when the queries of the preference
\* update succeed; when one of them fails the submission is accepted all
\* the same and the preference table is as it was before.
C21_UnionsTopicsWhenUpdateSucceeds ==
    PositiveFeedbackAccepted =>
        IF uIn.prefsUp
        THEN UnionedInto(StoredTopics(Get(uOut).before, uIn.current_user),
                         Get(CourseById(uIn.feedback.course_id)).topics,
                         prefTable, uIn.current_user)
        ELSE prefTable = Get(uOut).before

\* C21 witness: a first positive submission created the record, and a second
\* one added only the topics it did not hold.
C21_Witness ==
    /\ PositiveFeedbackAccepted
    /\ uIn.prefsUp
    /\ uIn.feedback.course_id = "c1"
    /\ Get(uOut).before[uIn.current_user] # None
    /\ StoredTopics(Get(uOut).before, uIn.current_user) = <<"web">>
    /\ StoredTopics(prefTable, uIn.current_user) = <<"web", "Python", "fundamentals">>

\* C21, the failed update: an accepted submission with rating 5 whose
\* preference update failed left the list without the topics of the course.
C21_UpdateFailedWitness ==
    /\ PositiveFeedbackAccepted
    /\ ~uIn.prefsUp
    /\ uIn.feedback.course_id = "c1"
    /\ StoredTopics(prefTable, uIn.current_user) = <<"web">>
    /\ fbTable[Len(fbTable)].course_id = "c1"
    /\ fbTable[Len(fbTable)].rating = 5

\* C21 witness of the first record.
C21_FirstRecordWitness ==
    /\ FeedbackAccepted("submit_feedback")
    /\ uIn.feedback.rating >= 4
    /\ Get(uOut).before[uIn.current_user] = None
    /\ StoredTopics(prefTable, uIn.current_user) = <<"web">>

\* C27: an accepted submission with rating 4 or higher for a user who has a
\* preference record changes only its preferred topics: difficulty level,
\* learning style and time commitment stay as they were (the table has no
\* column of excluded topics).
C27_OnlyTopicsChange ==
    ( /\ FeedbackAccepted("submit_feedback")
      /\ uIn.feedback.rating >= 4
      /\ ~IsNone(Get(uOut).before[uIn.current_user]) )
    =>
        LET old == Get(Get(uOut).before[uIn.current_user])
            new == Get(prefTable[uIn.current_user])
        IN  /\ new.difficulty_level = old.difficulty_level
            /\ new.learning_style = old.learning_style
            /\ new.time_commitment = old.time_commitment
            /\ DOMAIN new = DOMAIN old

\* The part of C27 that the code keeps: the time commitment is not written
\* by a submission.
C27_CommitmentKept ==
    ( /\ FeedbackAccepted("submit_feedback")
      /\ ~IsNone(Get(uOut).before[uIn.current_user]) )
    =>
        LET old == Get(Get(uOut).before[uIn.current_user])
            new == Get(prefTable[uIn.current_user])
        IN  new.time_commitment = old.time_commitment

\* C28: no feedback submission or update takes a topic out of a stored
\* preferred-topics list or removes a record, and one with rating below 4
\* leaves every stored preference record as it was.
C28_TopicsNeverLost ==
    (uOp \in {"submit_feedback", "update_feedback"} /\ ~IsNone(uOut)) =>
        /\ \A u \in Users :
            /\ Range(StoredTopics(Get(uOut).before, u))
                  \subseteq Range(StoredTopics(prefTable, u))
            /\ ~IsNone(Get(uOut).before[u]) => ~IsNone(prefTable[u])
        /\ uIn.feedback.rating < 4 => prefTable = Get(uOut).before

\* C28 witness: an accepted update of a feedback row with rating 4 or
\* higher that added topics to a list that already held some.
C28_Witness ==
    /\ FeedbackAccepted("update_feedback")
    /\ uIn.feedback.rating >= 4
    /\ StoredTopics(Get(uOut).before, uIn.current_user) # <<>>
    /\ Len(StoredTopics(prefTable, uIn.current_user))
         > Len(StoredTopics(Get(uOut).before, uIn.current_user))

\* C28 witness of a call with rating below 4 on a record that exists.
C28_LowRatingWitness ==
    /\ FeedbackAccepted("update_feedback")
    /\ uIn.feedback.rating < 4
    /\ uIn.feedback.course_id \in CourseIds
    /\ ~IsNone(prefTable[uIn.current_user])

-----------------------------------------------------------------------------
(* Concurrent calls of get_personalized_recommendations on one event loop.
   The cache check with its read and delete (lines 37-45) and the store
   (lines 65-68) are each a synchronous block; a call is split at the await
   between them (line 50), and other calls may run there.  This covers every
   schedule of the event loop, the back-to-back one of Request included. *)

ConcurrentArgs == { <<1, None, 2>>, <<1, Some(<<"python">>), 2>> }

ConcurrentEnvironments ==
    { [vector |-> <<>>, dbUp |-> TRUE],
      [vector |-> << VectorCandidate(Catalog[2], 80, TRUE),
                     VectorCandidate(Catalog[1], 60, TRUE) >>, dbUp |-> TRUE],
      [vector |-> << UnratedVectorCandidate >>, dbUp |-> FALSE] }

\* Mutant of the store: the timestamp of an entry that is present is kept.
StoreEntryKeepingTimestamp(c, key, data, t) ==
    With(c, key, [data |-> data,
                  timestamp |-> IF key \in DOMAIN c THEN c[key].timestamp ELSE t])

\* self._cache[cache_key] = {'data': recommendations, 'timestamp': now}
StoreEntry(c, key, data, t) == With(c, key, [data |-> data, timestamp |-> t])

CallsStarted == Len(hist) + Cardinality(pending)

\* Lines 37-45: a hit returns at once; otherwise an expired entry is deleted
\* and the call goes on to the retrieval.
Begin ==
    /\ CallsStarted < MaxRequests
    /\ \E args \in ConcurrentArgs, force_refresh \in BOOLEAN :
        LET key == cache_key(args[1], args[2], args[3])
            reads == ReadsCache(cache, key, force_refresh)
            hit == reads /\ IsFresh(cache[key], now)
        IN  IF hit
            THEN /\ hist' = Append(hist, [rid |-> CallsStarted + 1, key |-> key,
                                          began |-> now, time |-> now,
                                          path |-> "hit", vector |-> <<>>,
                                          dbUp |-> TRUE,
                                          result |-> cache[key].data,
                                          timestamp |-> cache[key].timestamp])
                 /\ UNCHANGED <<cache, owner, pending>>
            ELSE /\ cache' = IF reads THEN Without(cache, key) ELSE cache
                 /\ owner' = IF reads THEN Without(owner, key) ELSE owner
                 /\ pending' = pending \cup
                        {[rid |-> CallsStarted + 1, user_id |-> args[1],
                          query |-> args[2], max_results |-> args[3],
                          key |-> key, began |-> now]}
                 /\ UNCHANGED hist
    /\ UNCHANGED now
    /\ UNCHANGED fuseVars
    /\ UNCHANGED scoreVars
    /\ UNCHANGED explainVars
    /\ UNCHANGED unitVars
    /\ UNCHANGED storeVars

\* Lines 65-73 of a call that has started, computed being the outcome of
\* its pipeline: the store, or the fallback when the pipeline raised.
FinishGiven(p, env, computed) ==
    LET obs == [rid |-> p.rid, key |-> p.key, began |-> p.began, time |-> now,
                vector |-> env.vector, dbUp |-> env.dbUp, timestamp |-> now]
    IN  /\ pending' = pending \ {p}
        /\ IF ~computed.raised
           THEN /\ cache' = StoreEntry(cache, p.key, computed.value, now)
                /\ owner' = With(owner, p.key,
                                 [user_id |-> p.user_id, query |-> p.query,
                                  max_results |-> p.max_results])
                /\ hist' = Append(hist, obs @@ [path |-> "computed",
                                                result |-> computed.value])
           ELSE /\ UNCHANGED <<cache, owner>>
                /\ hist' = Append(hist, obs @@
                              [path |-> "fallback",
                               result |-> get_fallback_recommendations(
                                             p.max_results, env.dbUp)])

\* Lines 50-73 of a call that has started: retrieval, fusion, scoring, then
\* the store, or the fallback when the pipeline raised.
Finish ==
    /\ \E p \in pending, env \in ConcurrentEnvironments :
        FinishGiven(p, env, ComputePath(p.user_id, p.query,
                                        Some(get_user_context(p.user_id)),
                                        p.max_results, env.vector, env.dbUp))
    /\ UNCHANGED now
    /\ UNCHANGED fuseVars
    /\ UNCHANGED scoreVars
    /\ UNCHANGED explainVars
    /\ UNCHANGED unitVars
    /\ UNCHANGED storeVars

NextConcurrent == Begin \/ Finish \/ Tick

SpecConcurrent == Init /\ [][NextConcurrent]_vars

\* The entry is the pair stored by one computation: its list with its time.
StoredByOneComputation(key, data, timestamp, upto) ==
    \E j \in 1..upto :
        /\ hist[j].path = "computed"
        /\ hist[j].key = key
        /\ hist[j].result = data
        /\ hist[j].time = timestamp

\* C22: under every interleaving of calls, every cache entry, and every
\* entry a call was served from, is the list of one computation paired with
\* the time of that computation, and a call takes the fallback only when
\* its own pipeline raised.
C22_EntriesAreWholePairs ==
    /\ \A key \in DOMAIN cache :
        /\ DOMAIN cache[key] = {"data", "timestamp"}
        /\ StoredByOneComputation(key, cache[key].data, cache[key].timestamp, Len(hist))
    /\ \A i \in 1..Len(hist) :
        /\ hist[i].path = "hit" =>
              StoredByOneComputation(hist[i].key, hist[i].result, hist[i].timestamp, i - 1)
        /\ hist[i].path = "fallback" =>
              \E p \in ConcurrentArgs :
                  /\ cache_key(p[1], p[2], p[3]) = hist[i].key
                  /\ ComputePath(p[1], p[2], Some(get_user_context(p[1])), p[3],
                                 hist[i].vector, hist[i].dbUp).raised

\* C22 witness: two calls for one key overlapped, the one that started
\* later stored first, and the entry is the pair of the last store.
C22_Witness ==
    /\ Len(hist) = 2
    /\ hist[1].rid = 2
    /\ hist[2].rid = 1
    /\ hist[1].key = hist[2].key
    /\ hist[1].path = "computed"
    /\ hist[2].path = "computed"
    /\ hist[1].result # hist[2].result
    /\ hist[1].time < hist[2].time
    /\ cache[hist[2].key] = [data |-> hist[2].result, timestamp |-> hist[2].time]

-----------------------------------------------------------------------------
(* Result Cache: the effect of a call that returns the fallback list *)

\* The observation appended by the step, when the step served a call.
ServedInStep == Len(hist') = Len(hist) + 1

\* C23: a call that returns the fallback list leaves the cache as it was,
\* except that an expired entry found by its read is removed (an entry
\* bypassed by force_refresh stays); and no list served from the cache is a
\* fallback list: it is the list stored by an earlier computation.
C23_FallbackLeavesCache ==
    /\ [][ (ServedInStep /\ hist'[Len(hist')].path = "fallback") =>
             LET o == hist'[Len(hist')]
                 expired_found == /\ ~o.force_refresh
                                  /\ o.key \in DOMAIN cache
                                  /\ ~IsFresh(cache[o.key], now)
             IN  /\ cache' = IF expired_found
                              THEN [k \in DOMAIN cache \ {o.key} |-> cache[k]]
                              ELSE cache
                 /\ o.computeRan ]_vars
    /\ [](\A i \in 1..Len(hist) :
            hist[i].path = "hit" =>
                \E j \in 1..(i - 1) :
                    /\ hist[j].path = "computed"
                    /\ hist[j].key = hist[i].key
                    /\ hist[j].result = hist[i].result)

\* C23 witness: the pipeline failed under force_refresh while an unexpired
\* entry was stored under the key; the entry is still there.
C23_Witness ==
    /\ hist # <<>>
    /\ LET o == hist[Len(hist)] IN
        /\ o.path = "fallback"
        /\ o.force_refresh
        /\ ~IsNone(o.before)
        /\ IsFresh(Get(o.before), o.time)
        /\ o.key \in DOMAIN cache
        /\ cache[o.key] = Get(o.before)

\* C23 witness of the removal: the read found an expired entry, the pipeline
\* failed, and the key has no entry.
C23_ExpiredWitness ==
    /\ hist # <<>>
    /\ LET o == hist[Len(hist)] IN
        /\ o.path = "fallback"
        /\ ~o.force_refresh
        /\ ~IsNone(o.before)
        /\ o.key \notin DOMAIN cache

-----------------------------------------------------------------------------
(* Vector retrieval: _get_vector_recommendations builds the combined search
   string and hands it, with the exclusions it drew from the explicit query,
   to search_similar_courses. *)

\* limit=max(15, self.max_recommendations * 2) with MAX_RECOMMENDATIONS = 10.
VectorSearchLimit == 20

\* Lines 83-166: searched is FALSE when the query synthesis raised and the
\* handler returned [] without a search.
get_vector_recommendations(query, user_context, dbUp, index, up) ==
    LET built == build_search_query(query, user_context, dbUp) IN
    IF built.raised
    THEN [searched |-> FALSE, combined_query |-> "", negative_keywords |-> {},
          courses |-> <<>>]
    ELSE LET found == search_similar_courses(built.combined_query, VectorSearchLimit,
                                             MinCertainty, built.exclude_topics,
                                             index, up)
         IN  [searched |-> TRUE, combined_query |-> built.combined_query,
              negative_keywords |-> found.negative_keywords,
              courses |-> found.courses]

\* The contexts of the searches: those with at most two liked courses.
VectorContexts == QueryContexts \ {Some(ctxManyLikes)}

InitVector ==
    /\ EngineIdle
    /\ FuseIdle
    /\ ScoreIdle
    /\ ExplainIdle
    /\ StoreIdle
    /\ FlightIdle
    /\ uOp = "get_vector_recommendations"
    /\ uIn \in [query : SynthesisQueries, user_context : VectorContexts,
                dbUp : BOOLEAN, up : BOOLEAN]
    /\ uOut = None

VectorSearch ==
    /\ uOp = "get_vector_recommendations"
    /\ IsNone(uOut)
    /\ uOut' = Some(get_vector_recommendations(uIn.query, uIn.user_context, uIn.dbUp,
                                               IndexObjects, uIn.up))
    /\ UNCHANGED <<uOp, uIn>>
    /\ UNCHANGED engineVars
    /\ UNCHANGED fuseVars
    /\ UNCHANGED scoreVars
    /\ UNCHANGED explainVars
    /\ UNCHANGED storeVars
    /\ UNCHANGED flightVars

NextVector == VectorSearch

SpecVector == InitVector /\ [][NextVector]_vars

\* The exclusion keywords that the explicit query text yields on its own,
\* by the patterns of the engine and by those of the Vector Index.
ExplicitExclusions(query) ==
    IF IsNone(query) \/ Get(query) = "" THEN {}
    ELSE extract_negative_keywords(Get(query)) \cup Range(PatternKeywords(Get(query)))

\* C24: every exclusion keyword applied to a vector search is one that the
\* explicit query text yields; the preference-derived parts of the combined
\* search string contribute none.
C24_ExclusionsFromQueryOnly ==
    (uOp = "get_vector_recommendations" /\ ~IsNone(uOut) /\ Get(uOut).searched /\ uIn.up) =>
        Get(uOut).negative_keywords \subseteq ExplicitExclusions(uIn.query)

\* The part of C24 that the code keeps: every keyword of the explicit query
\* is applied.
C24_QueryExclusionsApplied ==
    (uOp = "get_vector_recommendations" /\ ~IsNone(uOut) /\ Get(uOut).searched) =>
        ExplicitExclusions(uIn.query) \subseteq Get(uOut).negative_keywords

-----------------------------------------------------------------------------
(* Personalised calls: the recommendation route builds the user_context from
   the preference and feedback tables at each request, and feedback changes
   the tables between requests. *)

RECURSIVE LatestFirst(_)
\* ORDER BY created_at DESC on rows in the order of their ids: the rows of
\* the latest second first, and the rows of one second in the order of
\* their ids, as SQLite returns rows that the ORDER BY leaves equal.
LatestFirst(rows) ==
    IF rows = <<>> THEN <<>>
    ELSE LET latest == CHOOSE t \in { rows[k].created_at : k \in 1..Len(rows) } :
                           \A k \in 1..Len(rows) : rows[k].created_at <= t
         IN  SelectSeq(rows, LAMBDA r : r.created_at = latest)
             \o LatestFirst(SelectSeq(rows, LAMBDA r : r.created_at < latest))

\* The columns of a feedback row that the context keeps and the engine reads.
FeedbackColumns(rows) ==
    [k \in 1..Len(rows) |-> [course_id |-> rows[k].course_id, rating |-> rows[k].rating]]

\* SELECT ... FROM user_feedback WHERE user_id = ? ORDER BY created_at DESC
\* LIMIT 10 (lines 356-363).
RecentFeedbackOf(rows, user_id) ==
    SqlLimit(FeedbackColumns(LatestFirst(SelectSeq(rows, LAMBDA r : r.user_id = user_id))), 10)

\* get_user_context on the tables of the User State Store, restricted to the
\* keys the engine reads.  dbUp: the queries succeed; when one raises, the
\* except clause returns the context of a user without rows.
get_user_context_from(table, rows, user_id, dbUp) ==
    IF ~dbUp THEN DefaultContext
    ELSE [preferences |->
            IF IsNone(table[user_id])
            THEN [topics |-> <<>>, difficulty |-> None, learning_style |-> None]
            ELSE [topics |-> Get(table[user_id]).preferred_topics,
                  difficulty |-> Get(table[user_id]).difficulty_level,
                  learning_style |-> Get(table[user_id]).learning_style],
          recent_feedback |-> RecentFeedbackOf(rows, user_id)]

\* The calls of one user: the default call and a call with a query.
PersonalArgs == { <<1, None, 2>>, <<1, Some(<<"python">>), 2>> }

PersonalEnvironments ==
    { [vector |-> << VectorCandidate(Catalog[2], 80, TRUE),
                     VectorCandidate(Catalog[1], 60, TRUE) >>, dbUp |-> TRUE],
      [vector |-> <<UnratedVectorCandidate>>, dbUp |-> FALSE] }

\* Feedback requests answered so far: every submission has taken the next
\* id and every deletion has removed a row.
FeedbackRequests == fbSeq + (fbSeq - Len(fbTable))

\* The feedback one user submits between calls.
PersonalFeedback ==
    { [course_id |-> "c1", rating |-> 5, learning_style |-> None,
       difficulty_preference |-> None],
      [course_id |-> "c3", rating |-> 3, learning_style |-> None,
       difficulty_preference |-> None] }

InitPersonal ==
    /\ EngineIdle
    /\ FuseIdle
    /\ ScoreIdle
    /\ ExplainIdle
    /\ UnitIdle
    /\ FlightIdle
    /\ prefTable = [NoRows EXCEPT ![1] = Some(StoredRecord)]
    /\ fbTable = <<>>
    /\ fbSeq = 0
    /\ ixTable = <<>>

\* A recommendation request of the user, up to the return of the engine:
\* get_user_context reads the tables as they are now, or returns the
\* default context when the database does not answer
\* (routers/recommendations.py 34, 346-411), and
\* get_personalized_recommendations is called with that context and without
\* force_refresh, as POST /api/recommendations/{user_id} calls it.
Recommend ==
    \E args \in PersonalArgs, env \in PersonalEnvironments :
        RequestWith(args[1], args[2],
                    Some(get_user_context_from(prefTable, fbTable, args[1], env.dbUp)),
                    args[3], FALSE, env.vector, env.dbUp)

\* POST /api/feedback/ by the same user, answered 200: the INSERT
\* succeeds, the preference update succeeds or fails.
GiveFeedback ==
    /\ FeedbackRequests < MaxFeedback
    /\ \E feedback \in PersonalFeedback, prefsUp \in BOOLEAN :
        LET done == submit_feedback(prefTable, fbTable, fbSeq, 1, feedback, TRUE,
                                    now, prefsUp)
        IN  /\ prefTable' = done.prefTable
            /\ fbTable' = done.fbTable
            /\ fbSeq' = done.fbSeq
            /\ UNCHANGED ixTable
    /\ UNCHANGED engineVars
    /\ UNCHANGED fuseVars
    /\ UNCHANGED scoreVars
    /\ UNCHANGED explainVars
    /\ UNCHANGED unitVars
    /\ UNCHANGED flightVars

\* DELETE /api/feedback/1 by the same user: the first feedback given is
\* taken back.
TakeBackFeedback ==
    /\ FeedbackRequests < MaxFeedback
    /\ delete_feedback(fbTable, 1, 1, TRUE).status = 200
    /\ fbTable' = delete_feedback(fbTable, 1, 1, TRUE).fbTable
    /\ UNCHANGED <<prefTable, fbSeq, ixTable>>
    /\ UNCHANGED engineVars
    /\ UNCHANGED fuseVars
    /\ UNCHANGED scoreVars
    /\ UNCHANGED explainVars
    /\ UNCHANGED unitVars
    /\ UNCHANGED flightVars

NextPersonal == Recommend \/ GiveFeedback \/ TakeBackFeedback \/ Tick

SpecPersonal == InitPersonal /\ [][NextPersonal]_vars

\* The call before call j that last computed and stored a list under the
\* key of call j, 0 when there is none.
LastComputed(j) ==
    LET S == { i \in 1..(j - 1) : hist[i].key = hist[j].key /\ hist[i].path = "computed" }
    IN  IF S = {} THEN 0 ELSE CHOOSE i \in S : \A k \in S : k <= i

\* C25: a call without force_refresh that comes less than 300 seconds after
\* a call with the same user id, query and max_results computed and stored a
\* list returns that list, whatever user_context it is given; in particular
\* when the stored preferences of the user have changed in between.
C25_HitIgnoresContext ==
    \A j \in 1..Len(hist) :
        LET i == LastComputed(j) IN
        ( /\ i # 0
          /\ ~hist[j].force_refresh
          /\ hist[j].time - hist[i].time < CacheTTL )
        => /\ hist[j].path = "hit"
           /\ hist[j].result = hist[i].result

\* What call j would have been given had it computed with its own
\* user_context.
FreshComputation(j) ==
    ComputePath(hist[j].user_id, hist[j].query, hist[j].context, hist[j].max_results,
                hist[j].vector, hist[j].dbUp)

\* C25 witness: a hit after the preferences changed returns the list
\* computed before, which is not the list a computation with the changed
\* user_context gives.
C25_Witness ==
    \E j \in 1..Len(hist) :
        /\ hist[j].path = "hit"
        /\ LastComputed(j) # 0
        /\ hist[j].context # hist[LastComputed(j)].context
        /\ hist[j].result = hist[LastComputed(j)].result
        /\ ~FreshComputation(j).raised
        /\ FreshComputation(j).value # hist[j].result

-----------------------------------------------------------------------------
(* Activity between calls: the user rates courses and logs interactions,
   and the content source reads both tables at each computation. *)

MaxInteractions == 1

\* POST /api/courses/{course_id}/interact by current_user: 500 when the
\* INSERT fails.
log_interaction(rows, current_user, course_id, interaction_type, dbUp) ==
    IF ~dbUp THEN [status |-> 500, ixTable |-> rows]
    ELSE [status |-> 200,
          ixTable |-> Append(rows, [user_id |-> current_user, course_id |-> course_id,
                                    interaction_type |-> interaction_type])]

\* InteractionType.
InteractionTypes == {"viewed", "enrolled", "completed", "dropped"}

ActivityArgs == { <<1, None, 3>> }

\* The Vector Index finds a course that the user rates; the database
\* answers, or does not while the index returns an object without a rating.
ActivityEnvironments ==
    { [vector |-> << VectorCandidate(Catalog[3], 80, TRUE) >>, dbUp |-> TRUE],
      [vector |-> <<UnratedVectorCandidate>>, dbUp |-> FALSE] }

ActivityFeedback ==
    { [course_id |-> "c3", rating |-> 2, learning_style |-> None,
       difficulty_preference |-> None] }

InitActivity ==
    /\ EngineIdle
    /\ FuseIdle
    /\ ScoreIdle
    /\ ExplainIdle
    /\ UnitIdle
    /\ FlightIdle
    /\ prefTable = NoRows
    /\ fbTable = <<>>
    /\ fbSeq = 0
    /\ ixTable = <<>>

\* A recommendation request of the user, up to the return of the engine:
\* the context and the content candidates are read from the tables as they
\* are now, and the engine is called without force_refresh, as
\* POST /api/recommendations/{user_id} calls it.
RecommendNow ==
    \E args \in ActivityArgs, env \in ActivityEnvironments :
        LET user_context == Some(get_user_context_from(prefTable, fbTable, args[1],
                                                       env.dbUp))
            content_courses == content_based_on(fbTable, Range(ixTable), args[1],
                                                args[2], env.dbUp)
        IN  RequestGiven(args[1], args[2], user_context, args[3], FALSE,
                         env.vector, env.dbUp,
                         ComputeWith(content_courses, user_context, args[3],
                                     env.vector, env.dbUp))

\* POST /api/feedback/ by a user, answered 200: the INSERT succeeds, the
\* preference update succeeds or fails.
RateCourse ==
    /\ FeedbackRequests < MaxFeedback
    /\ \E current_user \in Users, feedback \in ActivityFeedback, prefsUp \in BOOLEAN :
        LET done == submit_feedback(prefTable, fbTable, fbSeq, current_user,
                                    feedback, TRUE, now, prefsUp)
        IN  /\ prefTable' = done.prefTable
            /\ fbTable' = done.fbTable
            /\ fbSeq' = done.fbSeq
            /\ UNCHANGED ixTable
    /\ UNCHANGED engineVars
    /\ UNCHANGED fuseVars
    /\ UNCHANGED scoreVars
    /\ UNCHANGED explainVars
    /\ UNCHANGED unitVars
    /\ UNCHANGED flightVars

\* POST /api/courses/c2/interact by user 1.
LogInteraction ==
    /\ Len(ixTable) < MaxInteractions
    /\ \E interaction_type \in InteractionTypes :
        ixTable' = log_interaction(ixTable, 1, "c2", interaction_type, TRUE).ixTable
    /\ UNCHANGED <<prefTable, fbTable, fbSeq>>
    /\ UNCHANGED engineVars
    /\ UNCHANGED fuseVars
    /\ UNCHANGED scoreVars
    /\ UNCHANGED explainVars
    /\ UNCHANGED unitVars
    /\ UNCHANGED flightVars

\* DELETE /api/feedback/1 by a user: the first feedback given is taken
\* back by the user who gave it.
UnrateCourse ==
    /\ FeedbackRequests < MaxFeedback
    /\ \E current_user \in Users :
        /\ delete_feedback(fbTable, current_user, 1, TRUE).status = 200
        /\ fbTable' = delete_feedback(fbTable, current_user, 1, TRUE).fbTable
    /\ UNCHANGED <<prefTable, fbSeq, ixTable>>
    /\ UNCHANGED engineVars
    /\ UNCHANGED fuseVars
    /\ UNCHANGED scoreVars
    /\ UNCHANGED explainVars
    /\ UNCHANGED unitVars
    /\ UNCHANGED flightVars

NextActivity == RecommendNow \/ RateCourse \/ UnrateCourse \/ LogInteraction \/ Tick

SpecActivity == InitActivity /\ [][NextActivity]_vars

\* The courses a user has completed, dropped or rated 2 or lower, by the
\* tables.
Discarded(feedback_rows, interactions, user_id) ==
    { feedback_rows[k].course_id : k \in { n \in 1..Len(feedback_rows) :
          feedback_rows[n].user_id = user_id /\ feedback_rows[n].rating <= 2 } }
    \cup
    { interactions[k].course_id : k \in { n \in 1..Len(interactions) :
          /\ interactions[n].user_id = user_id
          /\ interactions[n].interaction_type \in {"completed", "dropped"} } }

\* The call among the first j of history h that computed the list call j
\* returns: call j itself unless it was served from the cache.
ProducedBy(h, j) ==
    IF h[j].path # "hit" THEN j
    ELSE LET S == { i \in 1..(j - 1) : h[i].key = h[j].key /\ h[i].path = "computed" }
         IN  CHOOSE i \in S : \A k \in S : k <= i

\* In the fused list and in the returned list of observation o, course cid
\* is there only as a vector candidate: the content source of the producing
\* call p did not contribute it.
OnlyFromVector(o, p, cid) ==
    /\ cid \notin IdsOf(p.content)
    /\ \A i \in 1..Len(o.fused) :
          o.fused[i].id = cid =>
              o.fused[i].source = Some("vector") /\ cid \in IdsOf(o.vector)
    /\ cid \in IdsOf(o.result) => cid \in IdsOf(p.vector)

\* C26: in every call that returns on the non-fallback path, a course the
\* user has completed, dropped or rated 2 or lower is in the fused list and
\* in the returned list only as a vector candidate tagged 'vector', never
\* as a contribution of the content source.
C26_DiscardedOnlyFromVector ==
    [][ ServedInStep =>
          LET j == Len(hist')
              o == hist'[j]
          IN  o.path # "fallback" =>
                \A cid \in Discarded(fbTable, ixTable, o.user_id) :
                    OnlyFromVector(o, hist'[ProducedBy(hist', j)], cid) ]_vars

\* C26 as the code keeps it: in every call that computes its list, a course
\* the user has completed, dropped or rated 2 or lower at that moment is in
\* the fused list and in the returned list only as a vector candidate
\* tagged 'vector'; a list served from the cache is the one computed
\* earlier.
C26_DiscardedOnlyFromVectorWhenComputed ==
    [][ ServedInStep =>
          LET j == Len(hist')
              o == hist'[j]
          IN  /\ o.path = "computed" =>
                    \A cid \in Discarded(fbTable, ixTable, o.user_id) :
                        OnlyFromVector(o, o, cid)
              /\ o.path = "fallback" =>
                    \A cid \in Discarded(fbTable, ixTable, o.user_id) :
                        OnlyFromVector([o EXCEPT !.result = <<>>], o, cid)
              /\ o.path = "hit" =>
                    o.result = hist[ProducedBy(hist', j)].result ]_vars

\* C26 witness: a computation without a query, with the database answering,
\* whose content candidates lack a course that the fused list and the
\* returned list hold as a vector candidate.
C26_Witness ==
    \E j \in 1..Len(hist) :
        /\ hist[j].path = "computed"
        /\ hist[j].query = None
        /\ hist[j].dbUp
        /\ hist[j].content # <<>>
        /\ "c3" \notin IdsOf(hist[j].content)
        /\ \E i \in 1..Len(hist[j].fused) :
              hist[j].fused[i].id = "c3" /\ hist[j].fused[i].source = Some("vector")
        /\ "c3" \in IdsOf(hist[j].result)
        /\ "c3" \in Discarded(fbTable, ixTable, 1)

-----------------------------------------------------------------------------
(* Explanation calls in flight: generate_recommendation_reasoning suspends
   at "await self._call_ollama(prompt)", so a call that has missed the cache
   stores its text when the Ollama API answers, and other calls run in
   between. *)

MaxExplanations == 3

\* The ranking that the calls explain, for one user.
ExplainedList == ComputePath(1, None, Some(get_user_context(1)), 2, << VectorCandidate(Catalog[2], 80, TRUE), VectorCandidate(Catalog[1], 60, TRUE) >>, TRUE).value

ExplanationsStarted == Len(hist) + Cardinality(pending)

\* Lines 30-57: the cache check and the construction of the prompt.  A hit
\* returns at once, an exception is answered by the outer handler, and
\* otherwise the call waits for the Ollama API.  after: the number of calls
\* that had returned when this one began.
BeginExplainOf(key, prompt_raises) ==
        LET hit == key \in DOMAIN rCache /\ ReasoningFresh(rCache[key], now)
            c1 == IF key \in DOMAIN rCache /\ ~hit THEN Without(rCache, key) ELSE rCache
            obs == [rid |-> ExplanationsStarted + 1, key |-> key, began |-> now,
                    time |-> now, after |-> Len(hist), kind |-> "none"]
        IN  IF hit
            THEN /\ hist' = Append(hist, obs @@ [path |-> "cached",
                                                 value |-> rCache[key].data])
                 /\ UNCHANGED <<rCache, pending>>
            ELSE IF prompt_raises
            THEN /\ hist' = Append(hist, obs @@ [path |-> "handler",
                                                 value |-> TimeoutSentence])
                 /\ rCache' = c1
                 /\ UNCHANGED pending
            ELSE /\ pending' = pending \cup
                        {[rid |-> ExplanationsStarted + 1, key |-> key,
                          began |-> now, after |-> Len(hist)]}
                 /\ rCache' = c1
                 /\ UNCHANGED hist

BeginExplain ==
    /\ ExplanationsStarted < MaxExplanations
    /\ \E prompt_raises \in BOOLEAN :
        BeginExplainOf(reasoning_key(ExplainedList, get_user_context(1)),
                       prompt_raises)
    /\ UNCHANGED <<cache, now, owner, rLast>>
    /\ UNCHANGED fuseVars
    /\ UNCHANGED scoreVars
    /\ UNCHANGED unitVars
    /\ UNCHANGED storeVars

\* Lines 59-70 of a call that waited: _call_ollama returns a text or one of
\* its sentences, which is stored and returned.
FinishExplain ==
    /\ \E p \in pending, outcome \in OllamaOutcomes :
        LET response == call_ollama(outcome) IN
        /\ pending' = pending \ {p}
        /\ rCache' = With(rCache, p.key, [data |-> Strip(response), timestamp |-> now])
        /\ hist' = Append(hist, [rid |-> p.rid, key |-> p.key, began |-> p.began,
                                 time |-> now, after |-> p.after,
                                 kind |-> outcome.kind, path |-> "called",
                                 value |-> Strip(response)])
    /\ UNCHANGED <<cache, now, owner, rLast>>
    /\ UNCHANGED fuseVars
    /\ UNCHANGED scoreVars
    /\ UNCHANGED unitVars
    /\ UNCHANGED storeVars

NextExplainFlight == BeginExplain \/ FinishExplain \/ TickReasoning

SpecExplainFlight == Init /\ [][NextExplainFlight]_vars

\* Call i failed inside _call_ollama and stored the sentence it was given.
StoredSentence(i) == hist[i].path = "called" /\ hist[i].kind # "ok"

\* Call j has the key of call i and began after call i had returned, less
\* than 600 s after call i stored its text.
LaterWithin(i, j) ==
    /\ hist[j].key = hist[i].key
    /\ hist[j].after >= i
    /\ hist[j].began - hist[i].time < ReasoningTTL

\* A call that was waiting for the Ollama API when call i stored its text
\* stored its own before call j began.
Overtaken(i, j) ==
    \E k \in 1..Len(hist) :
        /\ i < k
        /\ k <= hist[j].after
        /\ hist[k].key = hist[i].key
        /\ hist[k].path = "called"
        /\ hist[k].after < i

\* The last call that stored a text under the key of call j before call j
\* began.
LastStored(j) ==
    LET S == { k \in 1..hist[j].after : hist[k].key = hist[j].key /\ hist[k].path = "called" }
    IN  CHOOSE k \in S : \A m \in S : m <= k

\* A step in which the outer handler answers leaves the reasoning cache
\* without a new or changed entry.
HandlerStoresNothing ==
    [][ (Len(hist') = Len(hist) + 1 /\ hist'[Len(hist')].path = "handler") =>
           /\ DOMAIN rCache' \subseteq DOMAIN rCache
           /\ \A k \in DOMAIN rCache' : rCache'[k] = rCache[k] ]_vars

\* C29: when a call fails inside _call_ollama, every later call with the
\* same course ids and preferences that begins less than 600 s afterwards
\* is served the sentence of that call from the cache, without the Ollama
\* API being called; a failure answered by the outer handler stores
\* nothing.
C29_FailureSentenceCached ==
    /\ [](\A i, j \in 1..Len(hist) :
            (StoredSentence(i) /\ LaterWithin(i, j)) =>
                /\ hist[j].path = "cached"
                /\ hist[j].value = hist[i].value)
    /\ HandlerStoresNothing

\* C29 as the code keeps it: the later call is served from the cache the
\* text stored last under the key, which is the sentence of the failed call
\* unless a call that was waiting when the sentence was stored has stored
\* its own text since; a failure answered by the outer handler stores
\* nothing.
C29_FailureSentenceCachedUnlessOvertaken ==
    /\ [](\A i, j \in 1..Len(hist) :
            (StoredSentence(i) /\ LaterWithin(i, j)) =>
                /\ hist[j].path = "cached"
                /\ hist[j].value = hist[LastStored(j)].value
                /\ ~Overtaken(i, j) => hist[j].value = hist[i].value)
    /\ HandlerStoresNothing

\* C29 witness: a call timed out, and a call that began 300 s later was
\* served the timeout sentence from the cache.
C29_Witness ==
    \E i, j \in 1..Len(hist) :
        /\ StoredSentence(i)
        /\ hist[i].kind = "timeout"
        /\ LaterWithin(i, j)
        /\ hist[j].began = hist[i].time + 300
        /\ hist[j].path = "cached"
        /\ hist[j].value = TimeoutSentence

\* C29 witness of the outer handler: it answered while the cache was empty,
\* and the cache is still empty.
C29_HandlerWitness ==
    /\ Len(hist) = 1
    /\ hist[1].path = "handler"
    /\ rCache = <<>>
    /\ pending = {}

-----------------------------------------------------------------------------
(* The five routes of routers/recommendations.py that take a user id in
   their path: each handler compares the authenticated user with the user id
   of the path inside its try block, its except clauses decide what the
   client is answered, and the handler of the user of the path goes on to
   its calls. *)

RecommendationRoutes ==
    {"get_recommendations", "get_default_recommendations", "get_similar_courses",
     "semantic_course_search", "get_recommendation_history"}

\* Users that call and user ids of the path.
AccessUsers == {1, 2, 3}

\* "except HTTPException: raise" stands before "except Exception" in the
\* handlers of POST and GET /{user_id} (lines 61-62, 115-116) and in no
\* other handler.
ReraisesHTTPException(route) ==
    route \in {"get_recommendations", "get_default_recommendations"}

\* detail of the HTTPException that "except Exception" raises.
FailureDetail(route) ==
    CASE route = "get_recommendations"         -> "Failed to generate recommendations"
      [] route = "get_default_recommendations" -> "Failed to generate recommendations"
      [] route = "get_similar_courses"         -> "Failed to find similar courses"
      [] route = "semantic_course_search"      -> "Failed to perform semantic search"
      [] OTHER                                 -> "Failed to fetch recommendation history"

\* The handlers in which a step after the access check can raise:
\* semantic_course_search builds a CourseResponse from every search result
\* (lines 184-196), which raises on a result without a required property,
\* and get_recommendation_history runs its queries with execute_query,
\* which raises when the database does not answer.  The engine and the
\* explanation service catch their own exceptions
\* (recommendation_engine.py 71-73, 423-425; llm_service.py 63-70).
WorkCanRaise(route) ==
    route \in {"semantic_course_search", "get_recommendation_history"}

\* The requests of a route, without a query text: the body of POST holds
\* max_results, which may be null, and include_reasoning, GET takes the
\* integer max_results and
\* force_refresh, /similar takes use_vector_search.  work_raises: a step
\* after the access check raises.
AccessRequests(route) ==
    [user_id : AccessUsers, current_user : AccessUsers,
     max_results : CASE route = "get_recommendations" -> MaxResultsValues \cup {NoneLimit}
                     [] route = "get_default_recommendations" -> MaxResultsValues
                     [] OTHER -> {2},
     include_reasoning : IF route = "get_recommendations" THEN BOOLEAN ELSE {TRUE},
     force_refresh : IF route = "get_default_recommendations" THEN BOOLEAN ELSE {FALSE},
     use_vector_search : IF route = "get_similar_courses" THEN BOOLEAN ELSE {TRUE},
     work_raises : IF WorkCanRaise(route) THEN BOOLEAN ELSE {FALSE}]

\* The calls a handler makes once the access check has passed and, in GET
\* /{user_id}, the request model is built.  explains: the engine has
\* returned a list that is not empty and the reasoning is asked for.
RouteCalls(route, use_vector_search, explains) ==
    CASE ReraisesHTTPException(route) ->
            {"get_user_context", "get_personalized_recommendations"}
            \cup (IF explains THEN {"generate_recommendation_reasoning"} ELSE {})
      [] route = "get_similar_courses" ->
            IF use_vector_search THEN {"get_similar_courses_vector"} ELSE {}
      [] route = "semantic_course_search" -> {"search_similar_courses"}
      [] OTHER                            -> {"execute_query"}

\* The try block of a handler: what it raises and the calls it has made.
\* GET /{user_id} builds RecommendationRequest after the access check and
\* before any call (lines 86-90), which raises a ValidationError for a
\* max_results outside 1..20.
TryBlock(route, request, explains) ==
    IF request.current_user # request.user_id
    THEN [raised |-> "HTTPException", status |-> 403, detail |-> "Access denied",
          calls |-> {}]
    ELSE IF route = "get_default_recommendations" /\ ~ValidMaxResults(request.max_results)
    THEN [raised |-> "Exception", status |-> 0, detail |-> "", calls |-> {}]
    ELSE IF WorkCanRaise(route) /\ request.work_raises
    THEN [raised |-> "Exception", status |-> 0, detail |-> "",
          calls |-> RouteCalls(route, request.use_vector_search, explains)]
    ELSE [raised |-> "none", status |-> 200, detail |-> "",
          calls |-> RouteCalls(route, request.use_vector_search, explains)]

\* The answer to a request of a route.  The body of POST /{user_id} is
\* validated before the handler runs, so an integer max_results outside
\* 1..20 is answered 422 whoever calls, and null is accepted.  Otherwise the handler runs with its except
\* clauses: an HTTPException is an Exception, so "except Exception"
\* catches it where no clause re-raises it first.
route_handler(route, request, explains) ==
    IF route = "get_recommendations" /\ ~ValidMaxResults(request.max_results)
    THEN [status |-> 422, detail |-> "", calls |-> {}]
    ELSE IF TryBlock(route, request, explains).raised = "none"
    THEN [status |-> 200, detail |-> "", calls |-> TryBlock(route, request, explains).calls]
    ELSE IF TryBlock(route, request, explains).raised = "HTTPException"
            /\ ReraisesHTTPException(route)
    THEN [status |-> TryBlock(route, request, explains).status,
          detail |-> TryBlock(route, request, explains).detail,
          calls |-> TryBlock(route, request, explains).calls]
    ELSE [status |-> 500, detail |-> FailureDetail(route),
          calls |-> TryBlock(route, request, explains).calls]

\* The request of POST or GET /{user_id} as the routes above take it.
CallOf(route, request) ==
    [route |-> IF route = "get_recommendations" THEN "POST" ELSE "GET",
     user_id |-> request.user_id, query |-> None, max_results |-> request.max_results,
     include_reasoning |-> request.include_reasoning,
     force_refresh |-> request.force_refresh]

\* One request, made while the caches are empty.
InitAccess ==
    /\ EngineIdle
    /\ FuseIdle
    /\ ScoreIdle
    /\ ExplainIdle
    /\ StoreIdle
    /\ FlightIdle
    /\ uOp \in RecommendationRoutes
    /\ uIn \in AccessRequests(uOp)
    /\ uOut = None

\* The handler of the request up to its answer or, in POST and GET
\* /{user_id} by the user of the path, up to the point where the
\* explanation waits for the Ollama API; the engine has then written the
\* result cache.  Every other handler writes nothing.
HandleRoute ==
    /\ uOp \in RecommendationRoutes
    /\ IsNone(uOut)
    /\ pending = {}
    /\ IF ReraisesHTTPException(uOp) /\ uIn.current_user = uIn.user_id
       THEN \E env \in RouteEnvironments, prompt_raises \in BOOLEAN :
               /\ RecommendRoute(CallOf(uOp, uIn), env, prompt_raises)
               /\ uOut' = IF pending' # {} THEN None
                          ELSE Some(route_handler(uOp, uIn,
                                       /\ hist' # hist
                                       /\ uIn.include_reasoning
                                       /\ hist'[Len(hist')].result # <<>>))
       ELSE /\ uOut' = Some(route_handler(uOp, uIn, FALSE))
            /\ UNCHANGED <<cache, owner, hist>>
            /\ UNCHANGED explainVars
            /\ UNCHANGED flightVars
    /\ UNCHANGED <<now, uOp, uIn>>
    /\ UNCHANGED fuseVars
    /\ UNCHANGED scoreVars
    /\ UNCHANGED storeVars

\* The Ollama API answers the explanation the handler waits for, and the
\* handler returns its response.
FinishRoute ==
    /\ uOp \in RecommendationRoutes
    /\ IsNone(uOut)
    /\ \E p \in pending, outcome \in OllamaOutcomes : AnswerReasoning(p, outcome)
    /\ uOut' = Some(route_handler(uOp, uIn, TRUE))
    /\ UNCHANGED <<uOp, uIn>>
    /\ UNCHANGED <<cache, now, owner, hist>>
    /\ UNCHANGED fuseVars
    /\ UNCHANGED scoreVars
    /\ UNCHANGED storeVars

NextAccess == HandleRoute \/ FinishRoute

SpecAccess == InitAccess /\ [][NextAccess]_vars

\* A request whose authenticated user is not the user of the path has been
\* answered by its handler; a POST whose body is rejected (422) does not
\* reach the handler.
MismatchAnswered ==
    /\ uOp \in RecommendationRoutes
    /\ ~IsNone(uOut)
    /\ uIn.current_user # uIn.user_id
    /\ ~(uOp = "get_recommendations" /\ ~ValidMaxResults(uIn.max_results))

\* C30: on each of the five routes, a request whose authenticated user is
\* not the user of the path is answered 403 'Access denied', and no call
\* of retrieval, scoring, search or history is made for it.
C30_MismatchDenied ==
    MismatchAnswered =>
        /\ Get(uOut).status = 403
        /\ Get(uOut).detail = "Access denied"
        /\ Get(uOut).calls = {}

\* The part of C30 that the code keeps: such a request is never answered
\* with a success, no call is made for it and no cache is written, and POST
\* and GET /{user_id} answer 403 'Access denied'.
C30_MismatchDoesNoWork ==
    MismatchAnswered =>
        /\ Get(uOut).status \in {403, 500}
        /\ Get(uOut).calls = {}
        /\ EngineIdle /\ ExplainIdle /\ FlightIdle
        /\ ReraisesHTTPException(uOp) =>
              Get(uOut).status = 403 /\ Get(uOut).detail = "Access denied"

====
